---------------------------- MODULE Spec2Model ----------------------------
(***************************************************************************)
(* A model of the GSX emulator: the construction of the instruction set    *)
(* (src/emulator/InstructionSet.ts), the assembler translateToBytecode,    *)
(* the register file (Registers.ts), the numeric casts (TypeCasting.ts),   *)
(* getFloatBytes and the interpreter loop Gsx.runProgram.                  *)
(*                                                                         *)
(* Text is modelled by TLA+ strings, one character per JavaScript UTF-16   *)
(* code unit.  JavaScript numbers are modelled by exact rationals          *)
(* [n |-> numerator, d |-> denominator]; Math.fround rounds them to the    *)
(* nearest value with a 24-bit significand.                                *)
(***************************************************************************)
EXTENDS Integers, Sequences, FiniteSets, TLC

VARIABLES
  loaded,                     \* how many statements of the module body of
                              \* InstructionSet.ts have been evaluated
  instructionByBytecode,      \* InstructionSet.ts: the dispatch table
  bytecodeByKeyableMnemonic,  \* InstructionSet.ts: mnemonic -> bytecode
  overwritten,                \* history: keys some define() call re-assigned
  program,                    \* the text last given to translateToBytecode
  bytecode,                   \* translateToBytecode(program)[0], bytes 0..255
  syntaxErrors,               \* translateToBytecode(program)[1]
  translated,                 \* whether translateToBytecode has returned
  byteLength,                 \* byteLength of the DataView given to
                              \* Gsx.runProgram: bytecode, then zero bytes
  registers,                  \* Gsx.registers: pc, as, js, t, r, y
  ram,                        \* Gsx.ram: address -> byte, 0 where absent
  argumentStack,              \* Gsx.argumentStack: index -> float, 0 where absent
  jumpStack,                  \* Gsx.jumpStack: index -> uint32, 0 where absent
  runState,                   \* where the caller of Gsx.runProgram stands:
                              \* "idle", "running", "returned" or "threw"
  calls,                      \* the calls of Gsx.runProgram since the machine
                              \* was constructed or reset: 0, 1, or 2 for
                              \* two or more
  now,                        \* debounce.ts: the time, in units of the clock
  timeoutHandle,              \* debounce.ts: timeoutHandle, 0 for undefined
  timers,                     \* the timers setTimeout has started and that
                              \* neither fired nor were cleared
  invocations,                \* history: the calls of the debounced function
  executions                  \* history: the calls of callback

assemblerVars == <<program, bytecode, syntaxErrors, translated, byteLength>>
tableVars == <<loaded, instructionByBytecode, bytecodeByKeyableMnemonic,
               overwritten>>
gsxVars == <<registers, ram, argumentStack, jumpStack>>
debounceVars == <<now, timeoutHandle, timers, invocations, executions>>
vars == <<tableVars, assemblerVars, gsxVars, runState, calls, debounceVars>>

----------------------------------------------------------------------------
(* Text helpers.                                                           *)

CharAt(s, i) == SubSeq(s, i, i)

\* JavaScript's \s, restricted to the characters the model's texts use.
WhiteSpace == {" ", "\t", "\r", "\f"} \cup {"\n"}

\* The characters the regular expression's `.` does not match.
LineTerminators == {"\n", "\r"}

UpperToLower ==
  [c \in {"A", "B", "C", "D", "E", "F", "G", "H", "I", "J", "K", "L", "M",
          "N", "O", "P", "Q", "R", "S", "T", "U", "V", "W", "X", "Y", "Z"} |->
     CASE c = "A" -> "a" [] c = "B" -> "b" [] c = "C" -> "c" [] c = "D" -> "d"
       [] c = "E" -> "e" [] c = "F" -> "f" [] c = "G" -> "g" [] c = "H" -> "h"
       [] c = "I" -> "i" [] c = "J" -> "j" [] c = "K" -> "k" [] c = "L" -> "l"
       [] c = "M" -> "m" [] c = "N" -> "n" [] c = "O" -> "o" [] c = "P" -> "p"
       [] c = "Q" -> "q" [] c = "R" -> "r" [] c = "S" -> "s" [] c = "T" -> "t"
       [] c = "U" -> "u" [] c = "V" -> "v" [] c = "W" -> "w" [] c = "X" -> "x"
       [] c = "Y" -> "y" [] c = "Z" -> "z"]

\* String.prototype.toLowerCase
RECURSIVE toLowerCase(_)
toLowerCase(s) ==
  IF s = "" THEN ""
  ELSE LET c == Head(s)
       IN  (IF c \in DOMAIN UpperToLower THEN UpperToLower[c] ELSE c)
             \o toLowerCase(Tail(s))

\* The end of the match of `#.*` that starts at position i (the `#`):
\* `.` stops in front of a line terminator.
RECURSIVE CommentEnd(_, _)
CommentEnd(s, i) ==
  IF i + 1 <= Len(s) /\ CharAt(s, i + 1) \notin LineTerminators
    THEN CommentEnd(s, i + 1)
    ELSE i

\* s.replace(/\s+|#.*/g, ''), scanning from position i.
RECURSIVE StripFrom(_, _)
StripFrom(s, i) ==
  IF i > Len(s) THEN ""
  ELSE LET c == CharAt(s, i)
       IN  IF c \in WhiteSpace THEN StripFrom(s, i + 1)
           ELSE IF c = "#" THEN StripFrom(s, CommentEnd(s, i) + 1)
           ELSE c \o StripFrom(s, i + 1)

normalizeMnemonic(mnemonic) == toLowerCase(StripFrom(mnemonic, 1))

----------------------------------------------------------------------------
(* The instruction set: the module body of InstructionSet.ts.              *)

generalPurposeRegisters == <<"t", "r", "y">>

otherTwo(register) ==
  CASE register = "t" -> <<"r", "y">>
    [] register = "r" -> <<"t", "y">>
    [] register = "y" -> <<"t", "r">>

\* `new ${args.to} = ${args.from}`
assign(to, from) == "new " \o to \o " = " \o from

\* An Instruction closure, by what it does: op is its kind, to the register
\* (or RAM cell addressed by it) it writes, a and b the registers it reads.
Instr(op, to, a, b) == [op |-> op, to |-> to, a |-> a, b |-> b]

\* (mutant) a call of define keeps only the first spelling
DefFirstSpellingOnly(mnemonics, instruction) ==
  <<[mnemonics |-> <<mnemonics[1]>>, instruction |-> instruction]>>

\* One call define(mnemonicOrMnemonics, instruction).
Def(mnemonics, instruction) ==
  <<[mnemonics |-> mnemonics, instruction |-> instruction]>>

\* for (const register of generalPurposeRegisters) { Body(register) }
ForEachRegister(Body(_)) ==
  Body(generalPurposeRegisters[1]) \o Body(generalPurposeRegisters[2])
    \o Body(generalPurposeRegisters[3])

\* for (const other of otherTwo(register)) { Body(other) }
ForOtherTwo(register, Body(_)) ==
  Body(otherTwo(register)[1]) \o Body(otherTwo(register)[2])

ExitDefs == Def(<<"exit">>, Instr("exit", "-", "-", "-"))

RunDefs ==
  LET Body(register) ==
        Def(<<"run " \o register>>, Instr("run", "-", register, "-"))
  IN  ForEachRegister(Body)

PushDefs ==
  LET Body(register) ==
        Def(<<"push " \o register>>, Instr("push", "-", register, "-"))
  IN  ForEachRegister(Body)

PopDefs ==
  LET Body(register) ==
        Def(<<assign(register, "pop")>>, Instr("pop", register, "-", "-"))
  IN  ForEachRegister(Body)

RamReadDefs(width, op) ==
  LET Outer(addressRegister) ==
        LET Inner(valueRegister) ==
              Def(<<assign(valueRegister,
                           "ram[" \o addressRegister \o "] " \o width)>>,
                  Instr(op, valueRegister, addressRegister, "-"))
        IN  ForEachRegister(Inner)
  IN  ForEachRegister(Outer)

RamWriteDefs(width, op) ==
  LET Outer(addressRegister) ==
        LET Inner(valueRegister) ==
              Def(<<assign("ram[" \o addressRegister \o "] " \o width,
                           valueRegister)>>,
                  Instr(op, addressRegister, valueRegister, "-"))
        IN  ForOtherTwo(addressRegister, Inner)
  IN  ForEachRegister(Outer)

\* Set a register equal to the sum (product) of the other two registers.
OtherTwoCommutativeDefs(sign, op) ==
  LET Body(register) ==
        LET other1 == otherTwo(register)[1]
            other2 == otherTwo(register)[2]
        IN  Def(<<assign(register, other1 \o " " \o sign \o " " \o other2),
                  assign(register, other2 \o " " \o sign \o " " \o other1)>>,
                Instr(op, register, other1, other2))
  IN  ForEachRegister(Body)

\* Set a register equal to double its own value.
DoubleDefs ==
  LET Body(register) ==
        Def(<<assign(register, register \o " + " \o register),
              assign(register, "2 * " \o register),
              assign(register, register \o " * 2")>>,
            Instr("add", register, register, register))
  IN  ForEachRegister(Body)

\* Set a register equal to the square of its own value.
SquareDefs ==
  LET Body(register) ==
        Def(<<assign(register, register \o " * " \o register),
              assign(register, register \o "^2")>>,
            Instr("mul", register, register, register))
  IN  ForEachRegister(Body)

\* The two define calls of one register of "itself plus (times) another".
SelfCommutativeDefsOf(register, sign, op) ==
  LET Inner(otherRegister) ==
        Def(<<assign(register, register \o " " \o sign \o " " \o otherRegister),
              assign(register, otherRegister \o " " \o sign \o " " \o register)>>,
            Instr(op, register, register, otherRegister))
  IN  ForOtherTwo(register, Inner)

\* Set a register equal to the difference (quotient) of the other two.
OtherTwoOrderedDefs(sign, op) ==
  LET Body(register) ==
        LET other1 == otherTwo(register)[1]
            other2 == otherTwo(register)[2]
        IN  Def(<<assign(register, other1 \o " " \o sign \o " " \o other2)>>,
                Instr(op, register, other1, other2))
            \o Def(<<assign(register, other2 \o " " \o sign \o " " \o other1)>>,
                   Instr(op, register, other2, other1))
  IN  ForEachRegister(Body)

\* Set a register equal to the difference (quotient) of itself and another.
SelfOrderedDefs(sign, op) ==
  LET Body(register) ==
        LET other1 == otherTwo(register)[1]
            other2 == otherTwo(register)[2]
        IN  Def(<<assign(register, register \o " " \o sign \o " " \o other1)>>,
                Instr(op, register, register, other1))
            \o Def(<<assign(register, register \o " " \o sign \o " " \o other2)>>,
                   Instr(op, register, register, other2))
            \o Def(<<assign(register, other1 \o " " \o sign \o " " \o register)>>,
                   Instr(op, register, other1, register))
            \o Def(<<assign(register, other2 \o " " \o sign \o " " \o register)>>,
                   Instr(op, register, other2, register))
  IN  ForEachRegister(Body)

\* (mutant) the subtractions with the target as an operand come first
SubtractionDefsSelfFirst ==
  SelfOrderedDefs("-", "sub") \o OtherTwoOrderedDefs("-", "sub")

SubtractionDefs ==
  OtherTwoOrderedDefs("-", "sub") \o SelfOrderedDefs("-", "sub")

DivisionDefs ==
  OtherTwoOrderedDefs("/", "div") \o SelfOrderedDefs("/", "div")

\* The loop that opens at line 471 closes at line 584: the Subtraction and
\* Division sections are inside its body, once per outer register.
TimesOtherLoop ==
  LET Body(register) ==
        SelfCommutativeDefsOf(register, "*", "mul")
          \o SubtractionDefs \o DivisionDefs
  IN  ForEachRegister(Body)

PlusOtherLoop ==
  LET Body(register) == SelfCommutativeDefsOf(register, "+", "add")
  IN  ForEachRegister(Body)

\* Every define(...) call of the module body, in evaluation order.
DefineCalls ==
  ExitDefs \o RunDefs \o PushDefs \o PopDefs
    \o RamReadDefs("byte", "ramReadByte") \o RamReadDefs("float", "ramReadFloat")
    \o RamWriteDefs("byte", "ramWriteByte")
    \o RamWriteDefs("float", "ramWriteFloat")
    \o OtherTwoCommutativeDefs("+", "add") \o DoubleDefs \o PlusOtherLoop
    \o OtherTwoCommutativeDefs("*", "mul") \o SquareDefs \o TimesOtherLoop

\* (mutant) the float loads pushed in front of the byte loads
ConstantLoadPushesFloatFirst ==
  LET ByteBody(register) == <<Instr("loadByte", register, "-", "-")>>
      FloatBody(register) == <<Instr("loadFloat", register, "-", "-")>>
  IN  ForEachRegister(FloatBody) \o ForEachRegister(ByteBody)

\* The six instructionByBytecode.push(...) calls of the two constant loops.
ConstantLoadPushes ==
  LET ByteBody(register) == <<Instr("loadByte", register, "-", "-")>>
      FloatBody(register) == <<Instr("loadFloat", register, "-", "-")>>
  IN  ForEachRegister(ByteBody) \o ForEachRegister(FloatBody)

NumberOfPushes == Len(ConstantLoadPushes)
NumberOfStatements == NumberOfPushes + Len(DefineCalls)

SeqToSet(s) == {s[i] : i \in DOMAIN s}

\* function define(mnemonicOrMnemonics, instruction), on the pair of tables.
define(tables, mnemonics, instruction) ==
  LET normalizedMnemonics ==
        {normalizeMnemonic(mnemonics[i]) : i \in DOMAIN mnemonics}
      bytecodeOfDefine == Len(tables.instructionByBytecode)
      old == tables.bytecodeByKeyableMnemonic
  IN  [bytecodeByKeyableMnemonic |->
         [m \in DOMAIN old \cup normalizedMnemonics |->
            IF m \in normalizedMnemonics THEN bytecodeOfDefine ELSE old[m]],
       instructionByBytecode |->
         Append(tables.instructionByBytecode, instruction)]

EmptyDictionary == [m \in {} |-> 0]

Tables == [bytecodeByKeyableMnemonic |-> bytecodeByKeyableMnemonic,
           instructionByBytecode |-> instructionByBytecode]

ModuleLoaded == loaded = NumberOfStatements

----------------------------------------------------------------------------
(* JavaScript numbers as exact rationals, and the numeric casts.           *)

Abs(x) == IF x < 0 THEN -x ELSE x

RECURSIVE GCD(_, _)
GCD(a, b) == IF b = 0 THEN a ELSE GCD(b, a % b)

\* The number n/d, in lowest terms with a positive denominator.
Rat(n, d) ==
  LET g == GCD(Abs(n), Abs(d))
      s == IF d < 0 THEN -1 ELSE 1
  IN  [n |-> s * (n \div g), d |-> s * (d \div g)]

Int2Rat(i) == [n |-> i, d |-> 1]
RatLeq(x, y) == x.n * y.d <= y.n * x.d
IsInteger(x) == x.d = 1

\* Infinity, -Infinity and NaN are the numbers 1/0, -1/0 and 0/0.  The model
\* has one zero: it does not tell -0 from 0.
Infinity == [n |-> 1, d |-> 0]
NegativeInfinity == [n |-> -1, d |-> 0]
NaN == [n |-> 0, d |-> 0]
IsFinite(x) == x.d # 0
IsNaN(x) == x.d = 0 /\ x.n = 0
Sign(x) == IF x.n > 0 THEN 1 ELSE IF x.n < 0 THEN -1 ELSE 0

INT8_MIN == -128
INT8_MAX == 127
UINT8_MAX == 255

\* floor(log2(n / d)) for n, d > 0.
RECURSIVE FloorLog2(_, _)
FloorLog2(n, d) ==
  IF n < d THEN FloorLog2(2 * n, d) - 1
  ELSE IF n >= 2 * d THEN FloorLog2(n, 2 * d) + 1
  ELSE 0

\* n * 2^shift / d rounded to the nearest integer, ties to even; powers of
\* two are cancelled first so the products stay small.
RECURSIVE RoundScaled(_, _, _)
RoundScaled(n, shift, d) ==
  IF shift > 0 /\ d % 2 = 0 THEN RoundScaled(n, shift - 1, d \div 2)
  ELSE IF shift > 0 THEN RoundScaled(n * 2, shift - 1, d)
  ELSE IF shift < 0 THEN RoundScaled(n, shift + 1, d * 2)
  ELSE LET q == n \div d
           r == n % d
       IN  IF 2 * r > d \/ (2 * r = d /\ q % 2 = 1) THEN q + 1 ELSE q

\* The IEEE-754 single-precision fields of a finite number in the normal
\* range: sign, unbiased exponent and 24-bit significand (0 for zero).
\* The fields for sign bit s, exponent e and the rounded significand m: a
\* significand rounded up to 2^24 moves to the next exponent.
NormalFields(s, e, m) ==
  [sign |-> s,
   zero |-> FALSE,
   exponent |-> IF m = 2^24 THEN e + 1 ELSE e,
   significand |-> IF m = 2^24 THEN 2^23 ELSE m]
RoundedFields(s, a, d, e) == NormalFields(s, e, RoundScaled(a, 23 - e, d))
Float32Fields(x) ==
  IF x.n = 0 THEN [sign |-> 0, zero |-> TRUE, exponent |-> 0, significand |-> 0]
  ELSE RoundedFields(IF x.n < 0 THEN 1 ELSE 0, Abs(x.n), x.d,
                     FloorLog2(Abs(x.n), x.d))

\* The four bytes of a sign bit, a biased exponent and a 23-bit fraction.
PackedBytes(sign, biased, fraction) ==
  <<sign * 128 + biased \div 2,
    (biased % 2) * 128 + fraction \div 65536,
    (fraction \div 256) % 256,
    fraction % 256>>
FieldBytes(f) ==
  PackedBytes(f.sign,
              IF f.zero THEN 0 ELSE f.exponent + 127,
              IF f.zero THEN 0 ELSE f.significand - 2^23)

\* DataView.prototype.setFloat32(0, value): the four bytes, big-endian.
Float32Bytes(x) ==
  IF IsNaN(x) THEN <<127, 192, 0, 0>>
  ELSE IF x = Infinity THEN <<127, 128, 0, 0>>
  ELSE IF x = NegativeInfinity THEN <<255, 128, 0, 0>>
  ELSE FieldBytes(Float32Fields(x))

\* DataView.prototype.getInt8: a stored byte read as two's complement.
AsInt8(byte) == IF byte >= 128 THEN byte - 256 ELSE byte

\* export function getFloatBytes(value)
Int8Bytes(stored) ==
  <<AsInt8(stored[1]), AsInt8(stored[2]), AsInt8(stored[3]),
    AsInt8(stored[4])>>
getFloatBytes(value) == Int8Bytes(Float32Bytes(value))

----------------------------------------------------------------------------
(* The assembler: translateToBytecode.                                     *)

Digits == {"0", "1", "2", "3", "4", "5", "6", "7", "8", "9"}

DigitValue(c) ==
  CASE c = "0" -> 0 [] c = "1" -> 1 [] c = "2" -> 2 [] c = "3" -> 3
    [] c = "4" -> 4 [] c = "5" -> 5 [] c = "6" -> 6 [] c = "7" -> 7
    [] c = "8" -> 8 [] c = "9" -> 9

AllDigits(s) == \A i \in 1..Len(s) : CharAt(s, i) \in Digits

\* The value of a string of decimal digits.
RECURSIVE DigitsValue(_)
DigitsValue(s) ==
  IF s = "" THEN 0
  ELSE 10 * DigitsValue(SubSeq(s, 1, Len(s) - 1)) + DigitValue(CharAt(s, Len(s)))

\* The position of the first "." of s, or 0.
DotPosition(s) ==
  IF \E i \in 1..Len(s) : CharAt(s, i) = "."
    THEN CHOOSE i \in 1..Len(s) :
           CharAt(s, i) = "." /\ \A j \in 1..(i - 1) : CharAt(s, j) # "."
    ELSE 0

\* Whether s matches -?\d+(?:\.\d+)?
IsSignedDecimal(s) ==
  LET unsigned == IF s # "" /\ Head(s) = "-" THEN Tail(s) ELSE s
      dot == DotPosition(unsigned)
      whole == IF dot = 0 THEN unsigned ELSE SubSeq(unsigned, 1, dot - 1)
      fraction == IF dot = 0 THEN "" ELSE SubSeq(unsigned, dot + 1, Len(unsigned))
  IN  /\ whole # "" /\ AllDigits(whole)
      /\ dot # 0 => (fraction # "" /\ AllDigits(fraction))

\* parseFloat of a string that matches -?\d+(?:\.\d+)?
parseFloat(s) ==
  LET negative == Head(s) = "-"
      unsigned == IF negative THEN Tail(s) ELSE s
      dot == DotPosition(unsigned)
      whole == IF dot = 0 THEN unsigned ELSE SubSeq(unsigned, 1, dot - 1)
      fraction == IF dot = 0 THEN "" ELSE SubSeq(unsigned, dot + 1, Len(unsigned))
      scale == 10^Len(fraction)
      magnitude == DigitsValue(whole) * scale + DigitsValue(fraction)
  IN  Rat(IF negative THEN -magnitude ELSE magnitude, scale)

\* parseInt(s, 10) of such a string: the digits in front of the dot.
parseInt(s) ==
  LET negative == Head(s) = "-"
      unsigned == IF negative THEN Tail(s) ELSE s
      dot == DotPosition(unsigned)
      whole == IF dot = 0 THEN unsigned ELSE SubSeq(unsigned, 1, dot - 1)
  IN  Int2Rat(IF negative THEN -DigitsValue(whole) ELSE DigitsValue(whole))

\* enum BytecodeForConstantAssignment
ByteToRegister(register) ==
  CASE register = "t" -> 0 [] register = "r" -> 1 [] register = "y" -> 2
FloatToRegister(register) ==
  CASE register = "t" -> 3 [] register = "r" -> 4 [] register = "y" -> 5

\* What /^new([try])=(-?\d+(?:\.\d+)?)$/ captures, or <<>> without a match.
ConstantAssignmentCaptures(normalizedMnemonic) ==
  IF /\ Len(normalizedMnemonic) >= 6
     /\ SubSeq(normalizedMnemonic, 1, 3) = "new"
     /\ CharAt(normalizedMnemonic, 4) \in {"t", "r", "y"}
     /\ CharAt(normalizedMnemonic, 5) = "="
     /\ IsSignedDecimal(SubSeq(normalizedMnemonic, 6, Len(normalizedMnemonic)))
    THEN <<CharAt(normalizedMnemonic, 4),
           SubSeq(normalizedMnemonic, 6, Len(normalizedMnemonic))>>
    ELSE <<>>

NoBytecode == <<"null">>

\* (mutant) a constant written with a dot always takes the float form
tryToGetBytecodeDotForcesFloat(normalizedMnemonic) ==
  LET captures == ConstantAssignmentCaptures(normalizedMnemonic)
  IN  IF captures = <<>> THEN NoBytecode
      ELSE LET register == captures[1]
               constantAsString == captures[2]
               constant == parseFloat(constantAsString)
               isConstantAByte ==
                 /\ RatLeq(Int2Rat(INT8_MIN), constant)
                 /\ RatLeq(constant, Int2Rat(INT8_MAX))
                 /\ DotPosition(constantAsString) = 0
           IN  IF isConstantAByte
                 THEN <<ByteToRegister(register), constant.n>>
                 ELSE <<FloatToRegister(register)>> \o getFloatBytes(constant)

\* (mutant) the range test of isConstantAByte is missing
tryToGetBytecodeWithoutRangeTest(normalizedMnemonic) ==
  LET captures == ConstantAssignmentCaptures(normalizedMnemonic)
  IN  IF captures = <<>> THEN NoBytecode
      ELSE LET register == captures[1]
               constantAsString == captures[2]
               constant == parseFloat(constantAsString)
               isConstantAByte == constant = parseInt(constantAsString)
           IN  IF isConstantAByte
                 THEN <<ByteToRegister(register), constant.n>>
                 ELSE <<FloatToRegister(register)>> \o getFloatBytes(constant)

\* const isConstantAByte = ...
IsConstantAByte(constant, constantAsString) ==
  /\ RatLeq(Int2Rat(INT8_MIN), constant)
  /\ RatLeq(constant, Int2Rat(INT8_MAX))
  /\ constant = parseInt(constantAsString)

\* The return statements of tryToGetBytecodeForConstantAssignment.
BytecodeForConstant(register, constant, isConstantAByte) ==
  IF isConstantAByte
    THEN <<ByteToRegister(register), constant.n>>
    ELSE <<FloatToRegister(register)>> \o getFloatBytes(constant)

BytecodeForParsed(register, constantAsString, constant) ==
  BytecodeForConstant(register, constant,
                      IsConstantAByte(constant, constantAsString))

\* What tryToGetBytecodeForConstantAssignment makes of the captures.
BytecodeForCaptures(captures) ==
  IF captures = <<>> THEN NoBytecode
  ELSE BytecodeForParsed(captures[1], captures[2], parseFloat(captures[2]))

\* function tryToGetBytecodeForConstantAssignment(normalizedMnemonic): the
\* array of numbers it returns, or NoBytecode for null.
tryToGetBytecodeForConstantAssignment(normalizedMnemonic) ==
  BytecodeForCaptures(ConstantAssignmentCaptures(normalizedMnemonic))

\* Own lower-case properties every object literal inherits from
\* Object.prototype: a lookup of one of these keys in the dictionary `{}`
\* yields an object, not undefined.
ObjectPrototypeKeys == {"constructor", "__proto__"}

JsNumber(value) == [type |-> "number", value |-> value]
JsObject == [type |-> "object", value |-> 0]
JsUndefined == [type |-> "undefined", value |-> 0]

\* bytecodeByKeyableMnemonic[normalizedMnemonic]
LookUp(normalizedMnemonic) ==
  IF normalizedMnemonic \in DOMAIN bytecodeByKeyableMnemonic
    THEN JsNumber(bytecodeByKeyableMnemonic[normalizedMnemonic])
  ELSE IF normalizedMnemonic \in ObjectPrototypeKeys THEN JsObject
  ELSE JsUndefined

\* The element conversion of new Uint8Array(array): ToNumber, then modulo
\* 2^8; what is not a number converts to NaN and then to 0.
ToUint8Element(v) == IF v.type = "number" THEN v.value % 256 ELSE 0

\* program.split('\n'), scanning from position i with the current piece.
\* The position of the first "\n" of s at or after position i, Len(s) + 1
\* if there is none.
NextSeparator(s, i) ==
  IF \E j \in i..Len(s) : CharAt(s, j) = "\n"
    THEN CHOOSE j \in i..Len(s) :
           /\ CharAt(s, j) = "\n"
           /\ \A k \in i..(j - 1) : CharAt(s, k) # "\n"
    ELSE Len(s) + 1

RECURSIVE SplitFrom(_, _, _)
SplitAt(s, i, piece, end) ==
  IF end > Len(s) THEN <<piece \o SubSeq(s, i, Len(s))>>
  ELSE <<piece \o SubSeq(s, i, end - 1)>> \o SplitFrom(s, end + 1, "")

SplitFrom(s, i, piece) == SplitAt(s, i, piece, NextSeparator(s, i))

SplitLines(s) == SplitFrom(s, 1, "")

DigitChar(v) ==
  CASE v = 0 -> "0" [] v = 1 -> "1" [] v = 2 -> "2" [] v = 3 -> "3"
    [] v = 4 -> "4" [] v = 5 -> "5" [] v = 6 -> "6" [] v = 7 -> "7"
    [] v = 8 -> "8" [] v = 9 -> "9"

\* The decimal digits of k >= 0, padded to at least `width` digits.
RECURSIVE DecimalDigits(_, _)
DecimalDigits(k, width) ==
  IF k < 10 /\ width <= 1 THEN DigitChar(k)
  ELSE DecimalDigits(k \div 10, width - 1) \o DigitChar(k % 10)

\* Number.prototype.toLocaleString() in the en-US locale: groups of three.
RECURSIVE toLocaleString(_)
toLocaleString(k) ==
  IF k < 1000 THEN DecimalDigits(k, 1)
  ELSE toLocaleString(k \div 1000) \o "," \o DecimalDigits(k % 1000, 3)

UnknownInstruction(line, lineIndex) ==
  "Unknown instruction (" \o line \o ") on line "
    \o toLocaleString(lineIndex + 1) \o "."

\* The loop of translateToBytecode from the line with (0-based) index
\* lineIndex on; it yields the final syntaxErrors and programBytes.
RECURSIVE TranslateLoop(_, _, _, _)

\* The body of the loop for one line, given its normalized mnemonic, the
\* dictionary look-up and the bytecode of the constant assignment.
TranslateLine(programLines, lineIndex, errors, programBytes, line, normalizedMnemonic, possibleBytecode, bytecodeForConstantAssignment) ==
  IF Len(normalizedMnemonic) = 0
    THEN TranslateLoop(programLines, lineIndex + 1, errors, programBytes)
  ELSE IF possibleBytecode # JsUndefined
    THEN TranslateLoop(programLines, lineIndex + 1, errors,
           IF Len(errors) = 0
             THEN Append(programBytes, possibleBytecode)
             ELSE programBytes)
  ELSE IF bytecodeForConstantAssignment = NoBytecode
    THEN TranslateLoop(programLines, lineIndex + 1,
           Append(errors, UnknownInstruction(line, lineIndex)),
           programBytes)
  ELSE TranslateLoop(programLines, lineIndex + 1, errors,
         programBytes \o
           [i \in DOMAIN bytecodeForConstantAssignment |->
              JsNumber(bytecodeForConstantAssignment[i])])

TranslateNormalized(programLines, lineIndex, errors, programBytes, line, normalizedMnemonic) ==
  TranslateLine(programLines, lineIndex, errors, programBytes, line,
                normalizedMnemonic, LookUp(normalizedMnemonic),
                tryToGetBytecodeForConstantAssignment(normalizedMnemonic))

TranslateLoop(programLines, lineIndex, errors, programBytes) ==
  IF lineIndex >= Len(programLines)
    THEN [syntaxErrors |-> errors, programBytes |-> programBytes]
  ELSE TranslateNormalized(programLines, lineIndex, errors, programBytes,
                           programLines[lineIndex + 1],
                           normalizeMnemonic(programLines[lineIndex + 1]))

\* The bytes of new Uint8Array(syntaxErrors.length ? [] : programBytes).
FinalBytes(loop) ==
  IF Len(loop.syntaxErrors) # 0 THEN <<>>
  ELSE [i \in DOMAIN loop.programBytes |-> ToUint8Element(loop.programBytes[i])]

\* export function translateToBytecode(program): [bytecode, syntaxErrors]
translateToBytecode(text) ==
  LET loop == TranslateLoop(SplitLines(text), 0, <<>>, <<>>)
  IN  [bytecode |-> FinalBytes(loop), syntaxErrors |-> loop.syntaxErrors]

----------------------------------------------------------------------------
(* TypeCasting.ts, Registers.ts and Gsx.ts: the machine state.             *)

\* m * 2^k as a number; factors of two are cancelled before any power is
\* computed.
RECURSIVE ScaleByPowerOfTwo(_, _)
ScaleByPowerOfTwo(m, k) ==
  IF m = 0 THEN [n |-> 0, d |-> 1]
  ELSE IF k < 0 /\ m % 2 = 0 THEN ScaleByPowerOfTwo(m \div 2, k + 1)
  ELSE IF k < 0 THEN [n |-> m, d |-> 2^(-k)]
  ELSE [n |-> m * 2^k, d |-> 1]

\* export function toFloat32(value): Math.fround
toFloat32(value) ==
  IF ~IsFinite(value) \/ value.n = 0 THEN value
  ELSE LET f == Float32Fields(value)
       IN  ScaleByPowerOfTwo((IF f.sign = 1 THEN -1 ELSE 1) * f.significand,
                             f.exponent - 23)

\* DataView.prototype.getFloat32: the number four big-endian bytes encode.
Float32FromBytes(b) ==
  LET sign == IF b[1] >= 128 THEN -1 ELSE 1
      biased == (b[1] % 128) * 2 + b[2] \div 128
      fraction == (b[2] % 128) * 65536 + b[3] * 256 + b[4]
  IN  IF biased = 255
        THEN (IF fraction # 0 THEN NaN ELSE [n |-> sign, d |-> 0])
      ELSE IF biased = 0
        THEN ScaleByPowerOfTwo(sign * fraction, -149)
      ELSE ScaleByPowerOfTwo(sign * (2^23 + fraction), biased - 127 - 23)

\* Math.trunc of a finite number.
Trunc(x) == IF x.n >= 0 THEN x.n \div x.d ELSE -((-x.n) \div x.d)

\* The arithmetic of JavaScript numbers.  The exact result is kept; the
\* rounding to double precision is not modelled (it does not change what
\* toFloat32 then rounds to).
Negate(x) == [n |-> -x.n, d |-> x.d]

\* (mutant) the sum is its left operand
AddIgnoresRight(x, y) == x

Add(x, y) ==
  IF IsNaN(x) \/ IsNaN(y) THEN NaN
  ELSE IF ~IsFinite(x) /\ ~IsFinite(y) THEN (IF x = y THEN x ELSE NaN)
  ELSE IF ~IsFinite(x) THEN x
  ELSE IF ~IsFinite(y) THEN y
  ELSE Rat(x.n * y.d + y.n * x.d, x.d * y.d)

Subtract(x, y) == Add(x, Negate(y))

Multiply(x, y) ==
  IF IsNaN(x) \/ IsNaN(y) THEN NaN
  ELSE IF ~IsFinite(x) \/ ~IsFinite(y)
    THEN (IF x.n = 0 \/ y.n = 0 THEN NaN ELSE [n |-> Sign(x) * Sign(y), d |-> 0])
  ELSE Rat(x.n * y.n, x.d * y.d)

Divide(x, y) ==
  IF IsNaN(x) \/ IsNaN(y) THEN NaN
  ELSE IF ~IsFinite(x)
    THEN (IF ~IsFinite(y) THEN NaN
          ELSE [n |-> Sign(x) * (IF y.n < 0 THEN -1 ELSE 1), d |-> 0])
  ELSE IF ~IsFinite(y) THEN Int2Rat(0)
  ELSE IF y.n = 0 THEN (IF x.n = 0 THEN NaN ELSE [n |-> Sign(x), d |-> 0])
  ELSE Rat(x.n * y.d, x.d * y.n)

\* An unsigned integer that may need more than 31 bits, as hi * 2^16 + lo:
\* the program counter and the entries of the jump stack.
Wide(i) == [hi |-> i \div 65536, lo |-> i % 65536]
WidePlus(w, k) ==
  [hi |-> w.hi + (w.lo + k) \div 65536, lo |-> (w.lo + k) % 65536]
WideLess(v, w) == v.hi < w.hi \/ (v.hi = w.hi /\ v.lo < w.lo)
IsWide(value) == "hi" \in DOMAIN value
\* The value of a wide integer below 2^31.
Narrow(w) == w.hi * 65536 + w.lo

\* DataTypeConstants.ts: 2^32 - 1
UINT32_MAX == [hi |-> 65535, lo |-> 65535]

\* function integerSaturate(value, min, max), on integers.
integerSaturate(value, min, max) ==
  IF value < min THEN min
  ELSE IF value > max THEN max
  ELSE value

\* (mutant) the conversion wraps at the 8-bit modulus
toUint8Wraps(value) == value % 256

\* export function toUint8(value)
toUint8(value) == integerSaturate(value, 0, UINT8_MAX)

\* export function toUint32(value): integerSaturate(value, 0, UINT32_MAX) of
\* a wide integer or of a number; Math.trunc(NaN) is NaN.
toUint32(value) ==
  IF IsWide(value)
    THEN (IF WideLess(UINT32_MAX, value) THEN UINT32_MAX ELSE value)
  ELSE IF IsNaN(value) THEN NaN
  ELSE IF value.n < 0 THEN Wide(0)
  ELSE IF ~IsFinite(value) THEN UINT32_MAX
  ELSE Wide(Trunc(value))

\* The element conversion of a Uint32Array store: modulo 2^32.
ToUint32Element(w) == [hi |-> w.hi % 65536, lo |-> w.lo]

\* class Registers: the six private fields after construction.
NewRegisters ==
  [programCounter |-> Wide(0), argumentStackPointer |-> 0,
   jumpStackPointer |-> 0,
   t |-> Int2Rat(0), r |-> Int2Rat(0), y |-> Int2Rat(0)]

\* The setters of class Registers.
SetProgramCounter(regs, value) ==
  [regs EXCEPT !.programCounter = toUint32(value)]
SetArgumentStackPointer(regs, value) ==
  [regs EXCEPT !.argumentStackPointer = toUint8(value)]
\* (mutant) the jump stack pointer wraps at the 8-bit modulus
SetJumpStackPointerWraps(regs, value) ==
  [regs EXCEPT !.jumpStackPointer = value % 256]

SetJumpStackPointer(regs, value) ==
  [regs EXCEPT !.jumpStackPointer = toUint8(value)]

\* Registers.get(which) for a general purpose register
get(regs, which) == regs[which]

\* Registers.set(which, value) for a general purpose register: its setter
\* stores toFloat32(value).
set(regs, which, value) == [regs EXCEPT ![which] = toFloat32(value)]

\* Registers.reset()
resetRegisters(regs) ==
  LET r1 == SetProgramCounter(regs, Wide(0))
      r2 == SetArgumentStackPointer(r1, 0)
      r3 == SetJumpStackPointer(r2, 0)
      r4 == set(r3, "t", Int2Rat(0))
      r5 == set(r4, "r", Int2Rat(0))
  IN  set(r5, "y", Int2Rat(0))

\* A zero-filled buffer keeps only its non-zero elements.
EmptyBuffer == [i \in {} |-> 0]
ReadAt(buffer, i, zero) == IF i \in DOMAIN buffer THEN buffer[i] ELSE zero
WriteAt(buffer, i, v, zero) ==
  [j \in (IF v = zero THEN DOMAIN buffer \ {i} ELSE DOMAIN buffer \cup {i}) |->
     IF j = i THEN v ELSE buffer[j]]

BYTES_PER_MB == 1048576
RAM_SIZE == 3 * BYTES_PER_MB
\* (mutant) a program of exactly 3 MB is still accepted
MAX_PROGRAM_SIZE_Inclusive == 3 * BYTES_PER_MB + 1
MAX_PROGRAM_SIZE == 3 * BYTES_PER_MB

\* debounce(callback, delayInMs) has returned the debounced function: no
\* timer is set.
NewDebounce ==
  /\ now = 0
  /\ timeoutHandle = 0
  /\ timers = {}
  /\ invocations = <<>>
  /\ executions = <<>>

\* new Gsx()
NewGsx ==
  /\ registers = NewRegisters
  /\ ram = EmptyBuffer
  /\ argumentStack = EmptyBuffer
  /\ jumpStack = EmptyBuffer
  /\ runState = "idle"

Gsx == [registers |-> registers, ram |-> ram,
        argumentStack |-> argumentStack, jumpStack |-> jumpStack]

\* (mutant) reset leaves the RAM as it is
resetKeepsRam(gsx) ==
  [gsx EXCEPT !.registers = resetRegisters(gsx.registers)]

\* (mutant) reset also clears both stack buffers
resetClearsStacks(gsx) ==
  [gsx EXCEPT !.registers = resetRegisters(gsx.registers),
              !.ram = EmptyBuffer,
              !.argumentStack = EmptyBuffer,
              !.jumpStack = EmptyBuffer]

\* Gsx.reset(): this.registers.reset(), then the RAM is filled with 0.
reset(gsx) ==
  [gsx EXCEPT !.registers = resetRegisters(gsx.registers),
              !.ram = EmptyBuffer]

\* ToIndex of a DataView byte offset given as a number: the truncated
\* value, or -1 where ToIndex throws a RangeError.
ToIndex(x) ==
  IF IsNaN(x) THEN 0
  ELSE IF ~IsFinite(x) THEN -1
  ELSE IF Trunc(x) < 0 THEN -1
  ELSE Trunc(x)

\* Whether `size` bytes at offset index lie inside a view of viewLength bytes.
InView(index, size, viewLength) == index >= 0 /\ index + size <= viewLength

\* The byte offset a program counter denotes in the program's DataView, or
\* -1 when it is beyond every view of the model.
ProgramIndex(pc) == IF pc.hi < 32768 THEN Narrow(pc) ELSE -1

\* ToInt8 of a DataView.setInt8 value, as the byte that is stored.
ToInt8Byte(x) == IF ~IsFinite(x) THEN 0 ELSE Trunc(x) % 256

Returned(gsx) == [threw |-> FALSE, gsx |-> gsx]
Threw(gsx) == [threw |-> TRUE, gsx |-> gsx]

\* The four bytes of a buffer from offset i on.
FourBytes(buffer, i) ==
  <<ReadAt(buffer, i, 0), ReadAt(buffer, i + 1, 0),
    ReadAt(buffer, i + 2, 0), ReadAt(buffer, i + 3, 0)>>

\* The program as Gsx.runProgram receives it: a DataView of byteLength bytes
\* that holds the bytecode and, behind it, zero bytes.
ProgramView == [bytes |-> bytecode, byteLength |-> byteLength]

\* DataView.getUint8(i) of the program, for an offset inside the view.
ByteOf(programBytecode, i) ==
  IF i < Len(programBytecode.bytes) THEN programBytecode.bytes[i + 1] ELSE 0

\* The four bytes of the program from offset i on.
ProgramFourBytes(programBytecode, i) ==
  <<ByteOf(programBytecode, i), ByteOf(programBytecode, i + 1),
    ByteOf(programBytecode, i + 2), ByteOf(programBytecode, i + 3)>>

\* (mutant) the byte constant is stored in every general purpose register
LoadByteIntoEveryRegister(instruction, gsx, programBytecode) ==
  LET pc == gsx.registers.programCounter
      index == ProgramIndex(pc)
  IN  IF ~InView(index, 1, programBytecode.byteLength) THEN Threw(gsx)
      ELSE LET value == Int2Rat(AsInt8(ByteOf(programBytecode, index)))
               loadedRegs == set(set(set(gsx.registers, "t", value),
                                     "r", value), "y", value)
           IN  Returned([gsx EXCEPT !.registers =
                 SetProgramCounter(loadedRegs,
                   WidePlus(loadedRegs.programCounter, 1))])

\* (mutant) the byte of a constant load is read as an unsigned byte
LoadByteUnsigned(instruction, gsx, programBytecode) ==
  LET pc == gsx.registers.programCounter
      index == ProgramIndex(pc)
  IN  IF ~InView(index, 1, programBytecode.byteLength) THEN Threw(gsx)
      ELSE LET loadedRegs ==
                 set(gsx.registers, instruction.to,
                     Int2Rat(ByteOf(programBytecode, index)))
           IN  Returned([gsx EXCEPT !.registers =
                 SetProgramCounter(loadedRegs,
                   WidePlus(loadedRegs.programCounter, 1))])

\* Lines 181-191: read the next byte of the program, set a register to it,
\* advance the program counter by 1.
LoadByte(instruction, gsx, programBytecode) ==
  LET pc == gsx.registers.programCounter
      index == ProgramIndex(pc)
  IN  IF ~InView(index, 1, programBytecode.byteLength) THEN Threw(gsx)
      ELSE LET loadedRegs ==
                 set(gsx.registers, instruction.to,
                     Int2Rat(AsInt8(ByteOf(programBytecode, index))))
           IN  Returned([gsx EXCEPT !.registers =
                 SetProgramCounter(loadedRegs,
                   WidePlus(loadedRegs.programCounter, 1))])

\* (mutant) the two low bytes of the float constant are read in the
\* opposite order
LoadFloatSwapsLowBytes(instruction, gsx, programBytecode) ==
  LET pc == gsx.registers.programCounter
      index == ProgramIndex(pc)
      b == ProgramFourBytes(programBytecode, index)
  IN  IF ~InView(index, 4, programBytecode.byteLength) THEN Threw(gsx)
      ELSE LET loadedRegs ==
                 set(gsx.registers, instruction.to,
                     Float32FromBytes(<<b[1], b[2], b[4], b[3]>>))
           IN  Returned([gsx EXCEPT !.registers =
                 SetProgramCounter(loadedRegs,
                   WidePlus(loadedRegs.programCounter, 4))])

\* Lines 197-207: read the next four bytes of the program as a float, set a
\* register to it, advance the program counter by 4.
LoadFloat(instruction, gsx, programBytecode) ==
  LET pc == gsx.registers.programCounter
      index == ProgramIndex(pc)
  IN  IF ~InView(index, 4, programBytecode.byteLength) THEN Threw(gsx)
      ELSE LET loadedRegs ==
                 set(gsx.registers, instruction.to,
                     Float32FromBytes(ProgramFourBytes(programBytecode, index)))
           IN  Returned([gsx EXCEPT !.registers =
                 SetProgramCounter(loadedRegs,
                   WidePlus(loadedRegs.programCounter, 4))])

\* (mutant) exit outside a function also clears the t register
ExitClearsT(gsx) ==
  IF gsx.registers.jumpStackPointer = 0
    THEN Returned([gsx EXCEPT !.registers =
           SetProgramCounter(set(gsx.registers, "t", Int2Rat(0)), UINT32_MAX)])
    ELSE LET popped == SetJumpStackPointer(gsx.registers,
                         gsx.registers.jumpStackPointer - 1)
         IN  Returned([gsx EXCEPT !.registers =
               SetProgramCounter(popped,
                 ReadAt(gsx.jumpStack, popped.jumpStackPointer, Wide(0)))])

\* (mutant) exit inside a function reads the jump stack before it
\* decrements the pointer
ExitReadsBeforeDecrement(gsx) ==
  IF gsx.registers.jumpStackPointer = 0
    THEN Returned([gsx EXCEPT !.registers =
           SetProgramCounter(gsx.registers, UINT32_MAX)])
    ELSE LET popped == SetJumpStackPointer(gsx.registers,
                         gsx.registers.jumpStackPointer - 1)
         IN  Returned([gsx EXCEPT !.registers =
               SetProgramCounter(popped,
                 ReadAt(gsx.jumpStack, gsx.registers.jumpStackPointer,
                        Wide(0)))])

\* define('exit', ...)
Exit(gsx) ==
  IF gsx.registers.jumpStackPointer = 0
    THEN Returned([gsx EXCEPT !.registers =
           SetProgramCounter(gsx.registers, UINT32_MAX)])
    ELSE LET popped == SetJumpStackPointer(gsx.registers,
                         gsx.registers.jumpStackPointer - 1)
         IN  Returned([gsx EXCEPT !.registers =
               SetProgramCounter(popped,
                 ReadAt(gsx.jumpStack, popped.jumpStackPointer, Wide(0)))])

\* (mutant) run always stores the return address in the first element
RunOverwritesBottom(instruction, gsx) ==
  LET stored == WriteAt(gsx.jumpStack, 0,
                  ToUint32Element(WidePlus(gsx.registers.programCounter, 1)),
                  Wide(0))
      pushed == SetJumpStackPointer(gsx.registers,
                  gsx.registers.jumpStackPointer + 1)
  IN  Returned([gsx EXCEPT
        !.jumpStack = stored,
        !.registers = SetProgramCounter(pushed, get(pushed, instruction.a))])

\* define(`run ${register}`, ...)
Run(instruction, gsx) ==
  LET stored == WriteAt(gsx.jumpStack, gsx.registers.jumpStackPointer,
                  ToUint32Element(WidePlus(gsx.registers.programCounter, 1)),
                  Wide(0))
      pushed == SetJumpStackPointer(gsx.registers,
                  gsx.registers.jumpStackPointer + 1)
  IN  Returned([gsx EXCEPT
        !.jumpStack = stored,
        !.registers = SetProgramCounter(pushed, get(pushed, instruction.a))])

\* (mutant) push increments the pointer before it writes
PushIncrementsBeforeWrite(instruction, gsx) ==
  LET pushed == SetArgumentStackPointer(gsx.registers,
                  gsx.registers.argumentStackPointer + 1)
  IN  Returned([gsx EXCEPT
        !.argumentStack =
          WriteAt(gsx.argumentStack, pushed.argumentStackPointer,
                  toFloat32(get(gsx.registers, instruction.a)), Int2Rat(0)),
        !.registers = pushed])

\* define(`push ${register}`, ...)
Push(instruction, gsx) ==
  Returned([gsx EXCEPT
    !.argumentStack =
      WriteAt(gsx.argumentStack, gsx.registers.argumentStackPointer,
              toFloat32(get(gsx.registers, instruction.a)), Int2Rat(0)),
    !.registers = SetArgumentStackPointer(gsx.registers,
                    gsx.registers.argumentStackPointer + 1)])

\* define(assign({to: register, from: 'pop'}), ...)
Pop(instruction, gsx) ==
  LET popped == SetArgumentStackPointer(gsx.registers,
                  gsx.registers.argumentStackPointer - 1)
  IN  Returned([gsx EXCEPT !.registers =
        set(popped, instruction.to,
            ReadAt(gsx.argumentStack, popped.argumentStackPointer, Int2Rat(0)))])

\* (mutant) the byte of the RAM is read as an unsigned byte
RamReadByteUnsigned(instruction, gsx) ==
  LET address == ToIndex(get(gsx.registers, instruction.a))
  IN  IF ~InView(address, 1, RAM_SIZE) THEN Threw(gsx)
      ELSE Returned([gsx EXCEPT !.registers =
             set(gsx.registers, instruction.to,
                 Int2Rat(ReadAt(gsx.ram, address, 0)))])

\* new v = ram[a] byte
RamReadByte(instruction, gsx) ==
  LET address == ToIndex(get(gsx.registers, instruction.a))
  IN  IF ~InView(address, 1, RAM_SIZE) THEN Threw(gsx)
      ELSE Returned([gsx EXCEPT !.registers =
             set(gsx.registers, instruction.to,
                 Int2Rat(AsInt8(ReadAt(gsx.ram, address, 0))))])

\* new v = ram[a] float
RamReadFloat(instruction, gsx) ==
  LET address == ToIndex(get(gsx.registers, instruction.a))
  IN  IF ~InView(address, 4, RAM_SIZE) THEN Threw(gsx)
      ELSE Returned([gsx EXCEPT !.registers =
             set(gsx.registers, instruction.to,
                 Float32FromBytes(FourBytes(gsx.ram, address)))])

\* (mutant) the write takes the address from the value register and the
\* byte from the address register
RamWriteByteSwapsOperands(instruction, gsx) ==
  LET byte == get(gsx.registers, instruction.to)
      address == ToIndex(get(gsx.registers, instruction.a))
  IN  IF ~InView(address, 1, RAM_SIZE) THEN Threw(gsx)
      ELSE Returned([gsx EXCEPT !.ram =
             WriteAt(gsx.ram, address, ToInt8Byte(byte), 0)])

\* new ram[a] byte = v
RamWriteByte(instruction, gsx) ==
  LET byte == get(gsx.registers, instruction.a)
      address == ToIndex(get(gsx.registers, instruction.to))
  IN  IF ~InView(address, 1, RAM_SIZE) THEN Threw(gsx)
      ELSE Returned([gsx EXCEPT !.ram =
             WriteAt(gsx.ram, address, ToInt8Byte(byte), 0)])

\* new ram[a] float = v
RamWriteFloat(instruction, gsx) ==
  LET float == get(gsx.registers, instruction.a)
      address == ToIndex(get(gsx.registers, instruction.to))
      bytes == Float32Bytes(float)
  IN  IF ~InView(address, 4, RAM_SIZE) THEN Threw(gsx)
      ELSE Returned([gsx EXCEPT !.ram =
             WriteAt(WriteAt(WriteAt(WriteAt(gsx.ram,
               address, bytes[1], 0), address + 1, bytes[2], 0),
               address + 2, bytes[3], 0), address + 3, bytes[4], 0)])

\* (mutant) the operands are taken in the opposite order
ArithmeticSwapsOperands(instruction, gsx) ==
  LET left == get(gsx.registers, instruction.b)
      right == get(gsx.registers, instruction.a)
      result == CASE instruction.op = "add" -> Add(left, right)
                  [] instruction.op = "mul" -> Multiply(left, right)
                  [] instruction.op = "sub" -> Subtract(left, right)
                  [] instruction.op = "div" -> Divide(left, right)
  IN  Returned([gsx EXCEPT !.registers =
        set(gsx.registers, instruction.to, result)])

\* The arithmetic instructions: set a register to a sum, product,
\* difference or quotient of two registers.
Arithmetic(instruction, gsx) ==
  LET left == get(gsx.registers, instruction.a)
      right == get(gsx.registers, instruction.b)
      result == CASE instruction.op = "add" -> Add(left, right)
                  [] instruction.op = "mul" -> Multiply(left, right)
                  [] instruction.op = "sub" -> Subtract(left, right)
                  [] instruction.op = "div" -> Divide(left, right)
  IN  Returned([gsx EXCEPT !.registers =
        set(gsx.registers, instruction.to, result)])

\* The call instruction(gsx, programBytecode) of an Instruction closure.
Call(instruction, gsx, programBytecode) ==
  CASE instruction.op = "loadByte" -> LoadByte(instruction, gsx, programBytecode)
    [] instruction.op = "loadFloat" -> LoadFloat(instruction, gsx, programBytecode)
    [] instruction.op = "exit" -> Exit(gsx)
    [] instruction.op = "run" -> Run(instruction, gsx)
    [] instruction.op = "push" -> Push(instruction, gsx)
    [] instruction.op = "pop" -> Pop(instruction, gsx)
    [] instruction.op = "ramReadByte" -> RamReadByte(instruction, gsx)
    [] instruction.op = "ramReadFloat" -> RamReadFloat(instruction, gsx)
    [] instruction.op = "ramWriteByte" -> RamWriteByte(instruction, gsx)
    [] instruction.op = "ramWriteFloat" -> RamWriteFloat(instruction, gsx)
    [] OTHER -> Arithmetic(instruction, gsx)

\* export function runInstruction(instructionBytecode, gsx, programBytecode):
\* calling an absent element of instructionByBytecode throws a TypeError.
runInstruction(instructionBytecode, gsx, programBytecode) ==
  IF instructionBytecode + 1 \in DOMAIN instructionByBytecode
    THEN Call(instructionByBytecode[instructionBytecode + 1], gsx,
              programBytecode)
    ELSE Threw(gsx)

\* Whether the loop of Gsx.runProgram goes on: programCounter < byteLength.
\* (mutant) the loop stops one byte before the end of the program
LoopConditionStopsEarly(regs, programBytecode) ==
  /\ IsWide(regs.programCounter)
  /\ WideLess(WidePlus(regs.programCounter, 1),
              Wide(programBytecode.byteLength))

LoopCondition(regs, programBytecode) ==
  /\ IsWide(regs.programCounter)
  /\ WideLess(regs.programCounter, Wide(programBytecode.byteLength))

\* (mutant) the loop advances the program counter by two
LoopBodyAdvancesTwice(gsx, programBytecode) ==
  LET instructionBytecode ==
        ByteOf(programBytecode, Narrow(gsx.registers.programCounter))
      fetched == [gsx EXCEPT !.registers =
                    SetProgramCounter(gsx.registers,
                      WidePlus(gsx.registers.programCounter, 2))]
  IN  runInstruction(instructionBytecode, fetched, programBytecode)

\* One iteration of the loop of Gsx.runProgram.
LoopBody(gsx, programBytecode) ==
  LET instructionBytecode ==
        ByteOf(programBytecode, Narrow(gsx.registers.programCounter))
      fetched == [gsx EXCEPT !.registers =
                    SetProgramCounter(gsx.registers,
                      WidePlus(gsx.registers.programCounter, 1))]
  IN  runInstruction(instructionBytecode, fetched, programBytecode)

----------------------------------------------------------------------------
(* Actions: evaluation of the module body, one statement per step.         *)

Init ==
  /\ loaded = 0
  /\ instructionByBytecode = <<>>
  /\ bytecodeByKeyableMnemonic = EmptyDictionary
  /\ overwritten = {}
  /\ program = ""
  /\ bytecode = <<>>
  /\ syntaxErrors = <<>>
  /\ translated = FALSE
  /\ byteLength = 0
  /\ NewGsx
  /\ calls = 0
  /\ NewDebounce

\* instructionByBytecode.push(...) of the loops at lines 181-207.
PushConstantLoad ==
  /\ loaded < NumberOfPushes
  /\ instructionByBytecode' =
       Append(instructionByBytecode, ConstantLoadPushes[loaded + 1])
  /\ loaded' = loaded + 1
  /\ UNCHANGED <<calls, debounceVars>>
  /\ UNCHANGED <<bytecodeByKeyableMnemonic, overwritten, assemblerVars,
                 gsxVars, runState>>

\* The next define(...) call of the module body.
Define ==
  /\ loaded >= NumberOfPushes
  /\ loaded < NumberOfStatements
  /\ LET call == DefineCalls[loaded - NumberOfPushes + 1]
         after == define(Tables, call.mnemonics, call.instruction)
     IN  /\ instructionByBytecode' = after.instructionByBytecode
         /\ bytecodeByKeyableMnemonic' = after.bytecodeByKeyableMnemonic
         /\ overwritten' = overwritten \cup
              {m \in DOMAIN bytecodeByKeyableMnemonic :
                 after.bytecodeByKeyableMnemonic[m] # bytecodeByKeyableMnemonic[m]}
  /\ loaded' = loaded + 1
  /\ UNCHANGED <<calls, debounceVars>>
  /\ UNCHANGED <<assemblerVars, gsxVars, runState>>

\* Array.prototype.join('\n') (App.tsx builds its program text this way).
RECURSIVE JoinLines(_)
JoinLines(lines) ==
  IF Len(lines) = 0 THEN ""
  ELSE IF Len(lines) = 1 THEN lines[1]
  ELSE lines[1] \o "\n" \o JoinLines(Tail(lines))

\* The lines the programs of the model are made of.
SampleLines ==
  { "exit",
    "  Push T # save t",
    "NEW T=127",
    "new r = -128",
    "new y = -129",
    "new t = 0",
    "new t = 127.0",
    "new y = 128",
    "new r = 0.5",
    "",
    " # only a comment",
    "bogus",
    "constructor",
    "#\rexit" }

\* The longest program, in lines.
MaxLines == 2

Programs ==
  {JoinLines(lines) : lines \in UNION {[1..k -> SampleLines] : k \in 0..MaxLines}}

\* One call translateToBytecode(text) by a caller of the loaded module.  The
\* function keeps nothing between calls, so a behaviour holds one call.
Translate(programs) ==
  /\ ModuleLoaded
  /\ ~translated
  /\ runState = "idle"
  /\ \E text \in programs :
       LET result == translateToBytecode(text)
       IN  /\ program' = text
           /\ bytecode' = result.bytecode
           /\ syntaxErrors' = result.syntaxErrors
           /\ byteLength' = Len(result.bytecode)
  /\ translated' = TRUE
  /\ UNCHANGED <<calls, debounceVars>>
  /\ UNCHANGED <<tableVars, gsxVars, runState>>

Next == PushConstantLoad \/ Define \/ Translate(Programs)

Spec == Init /\ [][Next]_vars

----------------------------------------------------------------------------
(* The machine in use: the module is loaded, a program is translated and    *)
(* run.                                                                    *)

\* The lines the programs that are run are made of.
RunLines ==
  { "new t = 0",
    "new r = 0",
    "NEW Y = 0  # clear y",
    "new t = t + r",
    "exit" }

\* The longest program that is run, in lines.
MaxRunLines == 2

\* Whole programs that are run besides the combinations of RunLines: a
\* call of the function at address 3 and its return, pushes and pops, a
\* call through a register that holds 0 / 0, writes to RAM.
RunScenarios ==
  { "new t = 3\nrun t\nexit",
    "push t\nnew r = pop",
    "push t\npush r\nnew y = pop\nnew t = pop",
    "new r = pop",
    "new r = 0\nnew y = 0\nnew t = r / y\nrun t",
    "new ram[t] byte = r\nnew ram[r] float = y",
    "push r\nnew ram[t] byte = r" }

RunPrograms ==
  {JoinLines(lines) : lines \in UNION {[1..k -> RunLines] : k \in 0..MaxRunLines}}
    \cup RunScenarios

\* The values a caller stores in the general purpose registers before a
\* run (the test "Math" of the repository presets t, r, y to 8, 5, 3).
Presets == {<<"t", 8>>, <<"r", 5>>, <<"y", 3>>}

\* What a caller writes to the stacks before a run: the jump stack of the
\* test "exit: Within a function" (jumpStack[0] = 100, jumpStack[1] = 24,
\* jumpStackPointer = 2), a jump stack filled up to its last element (of
\* which the model writes the topmost return address), a full argument stack.
StackPresets ==
  { [jumpStack |-> (0 :> 100 @@ 1 :> 24),
     pointers |-> [jumpStackPointer |-> 2]],
    [jumpStack |-> (254 :> 100),
     pointers |-> [jumpStackPointer |-> 255]],
    [jumpStack |-> EmptyBuffer,
     pointers |-> [argumentStackPointer |-> 255]] }

\* The sizes of the zero-filled buffers a caller copies a program into.
PaddedSizes == {MAX_PROGRAM_SIZE - 1, MAX_PROGRAM_SIZE}

\* gsx.registers.t = value (r, y): a caller presets a register.
SetRegister ==
  /\ ModuleLoaded
  /\ runState # "running"
  /\ \E preset \in Presets :
       registers' = set(registers, preset[1], Int2Rat(preset[2]))
  /\ UNCHANGED <<calls, debounceVars>>
  /\ UNCHANGED <<tableVars, assemblerVars, ram, argumentStack, jumpStack,
                 runState>>

\* gsx.jumpStack[i] = value, gsx.registers.jumpStackPointer = value (or
\* argumentStackPointer): a caller presets the stacks of a fresh machine.
SetStacks ==
  /\ ModuleLoaded
  /\ runState = "idle"
  /\ registers.argumentStackPointer = 0
  /\ registers.jumpStackPointer = 0
  /\ jumpStack = EmptyBuffer
  /\ byteLength = Len(bytecode)
  /\ \E preset \in StackPresets :
       /\ jumpStack' =
            [i \in DOMAIN preset.jumpStack |->
               ToUint32Element(Wide(preset.jumpStack[i]))]
       /\ registers' =
            [name \in DOMAIN registers |->
               IF name \in DOMAIN preset.pointers
                 THEN toUint8(preset.pointers[name])
                 ELSE registers[name]]
  /\ UNCHANGED <<calls, debounceVars>>
  /\ UNCHANGED <<tableVars, assemblerVars, ram, argumentStack, runState>>

\* new DataView(new ArrayBuffer(size)) with the bytecode copied to its
\* start: the program a caller hands to runProgram may be longer than the
\* translation.  The model pads programs that begin with exit and runs
\* them with an empty jump stack, so that a run of a padded program ends
\* with its first instruction.
PadProgram ==
  /\ translated
  /\ runState = "idle"
  /\ registers.jumpStackPointer = 0
  /\ byteLength = Len(bytecode)
  /\ bytecode # <<>>
  /\ bytecode[1] = bytecodeByKeyableMnemonic["exit"]
  /\ \E size \in PaddedSizes : byteLength' = size
  /\ UNCHANGED <<calls, debounceVars>>
  /\ UNCHANGED <<tableVars, program, bytecode, syntaxErrors, translated,
                 gsxVars, runState>>

\* Gsx.reset()
Reset ==
  /\ ModuleLoaded
  /\ runState # "running"
  /\ LET after == reset(Gsx)
     IN  /\ registers' = after.registers
         /\ ram' = after.ram
         /\ argumentStack' = after.argumentStack
         /\ jumpStack' = after.jumpStack
  /\ calls' = 0
  /\ UNCHANGED debounceVars
  /\ UNCHANGED <<tableVars, assemblerVars, runState>>

\* (mutant) runProgram resets the machine before it starts, as resetAndRun
\* of App.tsx does
RunProgramResets ==
  /\ translated
  /\ runState # "running"
  /\ runState' = IF ProgramView.byteLength >= MAX_PROGRAM_SIZE THEN "threw" ELSE "running"
  /\ calls' = IF calls = 0 THEN 1 ELSE 2
  /\ registers' = reset(Gsx).registers
  /\ ram' = reset(Gsx).ram
  /\ UNCHANGED debounceVars
  /\ UNCHANGED <<tableVars, assemblerVars, argumentStack, jumpStack>>

\* Gsx.runProgram(bytecode) is called: the size check.
RunProgram ==
  /\ translated
  /\ runState # "running"
  /\ runState' = IF ProgramView.byteLength >= MAX_PROGRAM_SIZE THEN "threw" ELSE "running"
  /\ calls' = IF calls = 0 THEN 1 ELSE 2
  /\ UNCHANGED debounceVars
  /\ UNCHANGED <<tableVars, assemblerVars, gsxVars>>

\* One iteration of the loop of Gsx.runProgram: fetch, advance, dispatch.
RunInstruction ==
  /\ runState = "running"
  /\ LoopCondition(registers, ProgramView)
  /\ LET result == LoopBody(Gsx, ProgramView)
     IN  /\ registers' = result.gsx.registers
         /\ ram' = result.gsx.ram
         /\ argumentStack' = result.gsx.argumentStack
         /\ jumpStack' = result.gsx.jumpStack
         /\ runState' = IF result.threw THEN "threw" ELSE "running"
  /\ UNCHANGED <<calls, debounceVars>>
  /\ UNCHANGED <<tableVars, assemblerVars>>

\* The loop of Gsx.runProgram ends and the call returns.
RunProgramReturns ==
  /\ runState = "running"
  /\ ~LoopCondition(registers, ProgramView)
  /\ runState' = "returned"
  /\ UNCHANGED <<calls, debounceVars>>
  /\ UNCHANGED <<tableVars, assemblerVars, gsxVars>>

NextRun ==
  \/ PushConstantLoad
  \/ Define
  \/ Translate(RunPrograms)
  \/ SetRegister
  \/ SetStacks
  \/ PadProgram
  \/ Reset
  \/ RunProgram
  \/ RunInstruction
  \/ RunProgramReturns

SpecRun == Init /\ [][NextRun]_vars

----------------------------------------------------------------------------
(* The machine as the tests of the repository use it: the registers and    *)
(* the RAM are seeded, one program is translated and run.                  *)

\* The line `new <register> = <constant>` for an integer constant.
ConstantLine(register, constant) ==
  "new " \o register \o " = " \o (IF constant < 0 THEN "-" ELSE "")
    \o DecimalDigits(Abs(constant), 1)

\* The program of the initial state of App.tsx.
AppProgram ==
  JoinLines(<<"new t = 12", "new r = 3", "new y = t + r", "",
              "# Or... new y = y + y", "new y = y * 2", "",
              "new t = 0", "new ram[t] byte = y">>)

\* The programs of the tests: every mnemonic of the dictionary on its own,
\* every byte constant load, float constant loads, a write to RAM followed
\* by a read of the same address for every choice of registers, and the
\* program of App.tsx.
TestPrograms ==
  DOMAIN bytecodeByKeyableMnemonic
    \cup {ConstantLine(g, c) : g \in {"t", "r", "y"}, c \in INT8_MIN..INT8_MAX}
    \cup {"new t = 1.5", "new r = -2.25", "new y = 0.1", "new t = 300",
          "new y = -129", "new r = 127.5"}
    \cup {"new ram[" \o a \o "] " \o size \o " = " \o v
            \o "\nnew " \o w \o " = ram[" \o a \o "] " \o size :
            a \in {"t", "r", "y"}, v \in {"t", "r", "y"},
            w \in {"t", "r", "y"}, size \in {"byte", "float"}}
    \cup {AppProgram}

\* What a test stores before the run: t, r and y, and bytes of the RAM
\* (gsx.registers.t = 2, gsx.ram.setInt8(2, -8), gsx.ram.setFloat32(...)).
Seeds ==
  { [t |-> 8, r |-> 5, y |-> 2],
    [t |-> 3, r |-> 0, y |-> 8],
    [t |-> 5, r |-> -3, y |-> 0] }

\* The seeded bytes of the RAM: 64, -64, 63 and -63 as signed bytes at the
\* addresses 0, 3, 5 and 8, inside the floats 40A041C0, 41C0403F, C0403F80,
\* 3F8000C1 and C1200000 at the addresses 0, 2, 3, 5 and 8.
SeededRam ==
  0 :> 64 @@ 1 :> 160 @@ 2 :> 65 @@ 3 :> 192 @@ 4 :> 64 @@ 5 :> 63
    @@ 6 :> 128 @@ 8 :> 193 @@ 9 :> 32

\* A test seeds the new machine.
SeedMachine ==
  /\ ModuleLoaded
  /\ runState = "idle"
  /\ registers = NewRegisters
  /\ ram = EmptyBuffer
  /\ \E seed \in Seeds :
       registers' = set(set(set(registers, "t", Int2Rat(seed.t)),
                            "r", Int2Rat(seed.r)), "y", Int2Rat(seed.y))
  /\ ram' = SeededRam
  /\ UNCHANGED <<calls, debounceVars>>
  /\ UNCHANGED <<tableVars, assemblerVars, argumentStack, jumpStack, runState>>

NextTests ==
  \/ PushConstantLoad
  \/ Define
  \/ Translate(TestPrograms)
  \/ SeedMachine
  \/ RunProgram
  \/ RunInstruction
  \/ RunProgramReturns

SpecTests == Init /\ [][NextTests]_vars

----------------------------------------------------------------------------
(* Calls and returns: programs that call functions through `run`, and       *)
(* programs without a call that are started on a machine whose jump stack  *)
(* a caller has written.                                                   *)

\* Programs without a `run` line: the exit of a program with code after it,
\* a program that runs off its end, a RAM write, lines that are properties
\* every object inherits.
CallFreePrograms ==
  { "exit\nnew r = 7",
    "new t = 5\nnew y = t + r\nexit\nnew r = 1.5",
    "new r = 1.5\nnew ram[t] byte = r",
    "exit\nexit",
    "constructor",
    "constructor\nnew t = 7" }

\* `new t = 0`, `run t`: the function at address 0 calls itself.
LoopProgram == "new t = 0\nrun t"

\* Two functions, at addresses 6 and 12: the program calls the first, which
\* calls the second; a return address is two past its call.
ChainProgram ==
  JoinLines(<<"new t = 6", "run t", "exit", "exit", "exit",
              "new r = 12", "run r", "exit", "exit", "exit", "exit">>)

\* The address of the first `exit` of NestProgram(depth): the constant
\* depth - 1 takes one byte up to 127 and four bytes above.
NestExit(depth) == IF depth - 1 <= INT8_MAX THEN 10 ELSE 13

\* A function at address 0 that counts its calls in y and calls itself
\* until y = depth, then calls the `exit` behind it: (y - (depth - 1))
\* times the address of that exit is negative or zero, address 0, for
\* y < depth.
NestProgram(depth) ==
  JoinLines(<<"new r = 1", "new y = y + r",
              ConstantLine("r", depth - 1), "new t = y - r",
              ConstantLine("r", NestExit(depth)), "new t = t * r",
              "run t", "exit", "exit">>)

\* How deep the calls of the nesting programs go.
NestDepths == {1, 2, 3, 255}

CallPrograms ==
  CallFreePrograms \cup {LoopProgram, ChainProgram}
    \cup {NestProgram(depth) : depth \in NestDepths}

\* What a caller writes before a run: t, the jump stack pointer and the
\* jump stack.
CallStates ==
  { [t |-> 2, jumpStackPointer |-> 1, jumpStack |-> (0 :> 2)],
    [t |-> 0, jumpStackPointer |-> 2, jumpStack |-> (1 :> 2)],
    [t |-> 0, jumpStackPointer |-> 255, jumpStack |-> (254 :> 100)] }

\* gsx.registers.t = value, gsx.jumpStack[i] = value,
\* gsx.registers.jumpStackPointer = value on a new machine.  The model
\* does so in front of programs without a call, so that the programs with
\* calls start on the new machine.
SetCallState ==
  /\ translated
  /\ runState = "idle"
  /\ program \in CallFreePrograms
  /\ registers = NewRegisters
  /\ jumpStack = EmptyBuffer
  /\ \E state \in CallStates :
       /\ jumpStack' =
            [i \in DOMAIN state.jumpStack |->
               ToUint32Element(Wide(state.jumpStack[i]))]
       /\ registers' =
            SetJumpStackPointer(set(registers, "t", Int2Rat(state.t)),
                                state.jumpStackPointer)
  /\ UNCHANGED <<calls, debounceVars>>
  /\ UNCHANGED <<tableVars, assemblerVars, ram, argumentStack, runState>>

NextCalls ==
  \/ PushConstantLoad
  \/ Define
  \/ Translate(CallPrograms)
  \/ SetCallState
  \/ RunProgram
  \/ RunInstruction
  \/ RunProgramReturns

SpecCalls == Init /\ [][NextCalls]_vars

\* Whether the iteration `result` of the loop leaves the machine changed.
StepChanges(result) == result.threw \/ result.gsx # Gsx

\* ENABLED <<RunInstruction>>_vars as a state predicate: the loop of
\* Gsx.runProgram is about to run an iteration that changes the state.
RunInstructionEnabled ==
  /\ runState = "running"
  /\ LoopCondition(registers, ProgramView)
  /\ StepChanges(LoopBody(Gsx, ProgramView))

\* WF_vars(RunInstruction), written out by the definition of weak fairness
\* with RunInstructionEnabled for the ENABLED predicate.
FairRunInstruction ==
  \/ []<>(~RunInstructionEnabled)
  \/ []<><<RunInstruction>>_vars

\* runProgram is a synchronous loop: once it is called, the next iteration,
\* or the return, happens.
FairCalls == SpecCalls /\ FairRunInstruction /\ WF_vars(RunProgramReturns)

----------------------------------------------------------------------------
(* helpers/debounce.ts: the debounced function and the timers of the        *)
(* platform.                                                                *)

\* delayInMs, in units of the clock of the model (App.tsx passes 300).
Delay == 2

\* The clock stops at MaxTime; the debounced function is called at most
\* MaxInvocations times.
MaxTime == 6
MaxInvocations == 3

\* The argument lists the debounced function is called with.
Arguments == {"a", "b"}

\* (mutant) clearTimeout cancels nothing
clearTimeoutCancelsNothing(pending, handle) == pending

\* clearTimeout(handle): the timer of that handle, if it is still pending, is
\* cancelled; undefined and the handle of a timer that has fired cancel
\* nothing.
clearTimeout(pending, handle) == {timer \in pending : timer.id # handle}

\* setTimeout(() => { callback(...args) }, delayInMs) at the time `time`:
\* the timer may fire once delayInMs have passed.
setTimeout(pending, id, args, delayInMs, time) ==
  pending \cup {[id |-> id, due |-> time + delayInMs, args |-> args]}

\* The debounced function is called with `args` (debounce.ts:9-16).  A call
\* is made only while the clock can still reach the time its timer is due.
Debounced ==
  /\ Len(invocations) < MaxInvocations
  /\ now + Delay <= MaxTime
  /\ \E args \in Arguments :
       /\ timers' = setTimeout(clearTimeout(timers, timeoutHandle),
                       Len(invocations) + 1, args, Delay, now)
       /\ invocations' = Append(invocations, [at |-> now, args |-> args])
  /\ timeoutHandle' = Len(invocations) + 1
  /\ UNCHANGED <<now, executions>>
  /\ UNCHANGED <<tableVars, assemblerVars, gsxVars, runState, calls>>

\* A unit of time passes.  setTimeout promises a minimum delay only: time
\* may pass while a timer that is due has not fired yet.
Tick ==
  /\ now < MaxTime
  /\ now' = now + 1
  /\ UNCHANGED <<timeoutHandle, timers, invocations, executions>>
  /\ UNCHANGED <<tableVars, assemblerVars, gsxVars, runState, calls>>

\* A timer that is due fires: callback(...args) runs (debounce.ts:13-15).
\* `after` is the number of calls of the debounced function made so far.
TimerFires ==
  /\ \E timer \in timers :
       /\ timer.due <= now
       /\ timers' = timers \ {timer}
       /\ executions' = Append(executions,
            [at |-> now, args |-> timer.args, after |-> Len(invocations)])
  /\ UNCHANGED <<now, timeoutHandle, invocations>>
  /\ UNCHANGED <<tableVars, assemblerVars, gsxVars, runState, calls>>

NextDebounce == Debounced \/ Tick \/ TimerFires

SpecDebounce == Init /\ [][NextDebounce]_vars

\* Time passes, and a timer that stays due fires.
FairDebounce == SpecDebounce /\ WF_vars(Tick) /\ WF_vars(TimerFires)

----------------------------------------------------------------------------
(* Properties of the loaded instruction set.                               *)

\* The handler of bytecode b (the table is indexed from 0).
InstructionAt(b) == instructionByBytecode[b + 1]

LastBytecode == Len(instructionByBytecode) - 1

\* C1: after module initialization the dispatch table has exactly 256
\* entries, one handler for every byte value 0..255.
C1_TableHas256Entries ==
  ModuleLoaded => Len(instructionByBytecode) = 256

\* C2: after module initialization the mnemonic dictionary contains exactly
\* 250 keys.
C2_DictionaryHas250Keys ==
  ModuleLoaded => Cardinality(DOMAIN bytecodeByKeyableMnemonic) = 250

\* C3: after initialization every table index from 6 up to the last one is
\* the dictionary value of at least one normalized mnemonic key.
C3_EveryOpcodeHasAMnemonic ==
  ModuleLoaded =>
    \A b \in 6..LastBytecode :
      \E m \in DOMAIN bytecodeByKeyableMnemonic :
        bytecodeByKeyableMnemonic[m] = b

\* C4: table indices 0..5 are the constant loads byte->T, byte->R, byte->Y,
\* float->T, float->R, float->Y, no dictionary key maps to any of them, and
\* the mnemonic `exit` maps to opcode 6, whose handler is the exit handler.
C4_ConstantLoadsThenExit ==
  ModuleLoaded =>
    /\ Len(instructionByBytecode) >= 7
    /\ InstructionAt(0) = Instr("loadByte", "t", "-", "-")
    /\ InstructionAt(1) = Instr("loadByte", "r", "-", "-")
    /\ InstructionAt(2) = Instr("loadByte", "y", "-", "-")
    /\ InstructionAt(3) = Instr("loadFloat", "t", "-", "-")
    /\ InstructionAt(4) = Instr("loadFloat", "r", "-", "-")
    /\ InstructionAt(5) = Instr("loadFloat", "y", "-", "-")
    /\ \A m \in DOMAIN bytecodeByKeyableMnemonic :
         bytecodeByKeyableMnemonic[m] \notin 0..5
    /\ "exit" \in DOMAIN bytecodeByKeyableMnemonic
    /\ bytecodeByKeyableMnemonic["exit"] = 6
    /\ InstructionAt(6).op = "exit"

C4_Witness ==
  /\ ModuleLoaded
  /\ "exit" \in DOMAIN bytecodeByKeyableMnemonic
  /\ Len(instructionByBytecode) > 6

----------------------------------------------------------------------------
(* Properties of translateToBytecode.                                      *)

ProgramLines == SplitLines(program)

IsKey(m) == m \in DOMAIN bytecodeByKeyableMnemonic

MatchesConstantPattern(m) == ConstantAssignmentCaptures(m) # <<>>

IsBlankLine(line) == normalizeMnemonic(line) = ""

\* A line translate records an error for, in the words of the specification.
IsBadLine(line) ==
  LET m == normalizeMnemonic(line)
  IN  m # "" /\ ~IsKey(m) /\ ~MatchesConstantPattern(m)

IsConstantLine(line) ==
  LET m == normalizeMnemonic(line)
  IN  ~IsKey(m) /\ MatchesConstantPattern(m)

IsKeyableLine(line) == IsKey(normalizeMnemonic(line))

\* The encoding of a line: the opcode of a keyable mnemonic, the bytes of a
\* constant load; a blank line has none, and so has every other line.
LineEncoding(line) ==
  LET m == normalizeMnemonic(line)
      constantBytes == tryToGetBytecodeForConstantAssignment(m)
  IN  IF IsKey(m) THEN <<bytecodeByKeyableMnemonic[m]>>
      ELSE IF MatchesConstantPattern(m) /\ constantBytes # NoBytecode
        THEN [i \in DOMAIN constantBytes |-> constantBytes[i] % 256]
      ELSE <<>>

RECURSIVE ConcatEncodings(_)
ConcatEncodings(lines) ==
  IF lines = <<>> THEN <<>>
  ELSE LineEncoding(Head(lines)) \o ConcatEncodings(Tail(lines))

\* C5: translate returns no byte whenever a syntax error was recorded,
\* wherever the bad line is; without an error the bytes are the encodings of
\* the non-blank lines, concatenated in line order.
C5_BytesEmptyOnErrorElseConcatenation ==
  translated =>
    /\ syntaxErrors # <<>> => bytecode = <<>>
    /\ syntaxErrors = <<>> => bytecode = ConcatEncodings(ProgramLines)

\* The error entries the specification expects for the lines from index i on.
RECURSIVE ExpectedErrors(_, _)
ExpectedErrors(lines, i) ==
  IF i > Len(lines) THEN <<>>
  ELSE (IF IsBadLine(lines[i])
          THEN <<UnknownInstruction(lines[i], i - 1)>> ELSE <<>>)
         \o ExpectedErrors(lines, i + 1)

\* C6: the error list has exactly one entry for each line whose normalized
\* form is non-empty, is no dictionary key and does not match the constant
\* pattern, in ascending line order, each with its 1-based line number that
\* counts every line.
C6_OneErrorPerBadLine ==
  translated => syntaxErrors = ExpectedErrors(ProgramLines, 1)

\* The bytes line i contributed to the bytecode of an error-free program:
\* what translating the first i lines adds to translating the first i - 1.
BytesOfLine(i) ==
  LET before == translateToBytecode(JoinLines(SubSeq(ProgramLines, 1, i - 1)))
      upTo == translateToBytecode(JoinLines(SubSeq(ProgramLines, 1, i)))
  IN  SubSeq(bytecode, Len(before.bytecode) + 1, Len(upTo.bytecode))

ConstantText(line) == ConstantAssignmentCaptures(normalizeMnemonic(line))[2]
ConstantRegister(line) == ConstantAssignmentCaptures(normalizeMnemonic(line))[1]
HasDot(line) == DotPosition(ConstantText(line)) # 0
ConstantValue(line) == parseFloat(ConstantText(line))

IsInt8(x) ==
  IsInteger(x) /\ RatLeq(Int2Rat(-128), x) /\ RatLeq(x, Int2Rat(127))

IsFloatForm(bytes, register) ==
  Len(bytes) = 5 /\ bytes[1] = FloatToRegister(register)

IsByteForm(bytes, register, value) ==
  bytes = <<ByteToRegister(register), value % 256>>

C8_UndottedConstantForms ==
  (translated /\ syntaxErrors = <<>>) =>
    \A i \in DOMAIN ProgramLines :
      (IsConstantLine(ProgramLines[i]) /\ ~HasDot(ProgramLines[i])) =>
        LET line == ProgramLines[i]
            c == ConstantValue(line).n
        IN  IF -128 <= c /\ c <= 127
              THEN /\ Len(BytesOfLine(i)) = 2
                   /\ BytesOfLine(i)[1] = ByteToRegister(ConstantRegister(line))
                   /\ AsInt8(BytesOfLine(i)[2]) = c
              ELSE /\ Len(BytesOfLine(i)) = 5
                   /\ BytesOfLine(i)[1] = FloatToRegister(ConstantRegister(line))

\* An error-free program with an undotted constant on either side of each
\* end of the byte range.
C8_Witness ==
  /\ translated
  /\ syntaxErrors = <<>>
  /\ \E i, j \in DOMAIN ProgramLines :
       /\ IsConstantLine(ProgramLines[i]) /\ ~HasDot(ProgramLines[i])
       /\ ConstantValue(ProgramLines[i]).n \in {-128, 127}
       /\ IsConstantLine(ProgramLines[j]) /\ ~HasDot(ProgramLines[j])
       /\ ConstantValue(ProgramLines[j]).n \in {-129, 128}
       /\ Len(bytecode) = 7

\* Whether the program is the one line `new g = 0`, in any spelling.
IsZeroAssignment(text, g) == normalizeMnemonic(text) = "new" \o g \o "=0"

\* C9: `newt=0`, `newr=0`, `newy=0` are no dictionary keys; `new g = 0` is
\* translated to the two bytes <<byte-constant opcode of g, 0>>; and running
\* it from program counter 0 sets g to 0, leaves the other two general
\* purpose registers as they were and ends behind the two bytes.
C9_ZeroAssignment ==
  /\ [](ModuleLoaded =>
         \A g \in {"t", "r", "y"} :
           /\ ~IsKey("new" \o g \o "=0")
           /\ (translated /\ IsZeroAssignment(program, g)) =>
                (syntaxErrors = <<>> /\ bytecode = <<ByteToRegister(g), 0>>))
  /\ [][\A g \in {"t", "r", "y"} :
          (/\ translated
           /\ IsZeroAssignment(program, g)
           /\ runState = "running"
           /\ registers.programCounter = Wide(0)) =>
            /\ runState' = "running"
            /\ registers'[g] = Int2Rat(0)
            /\ \A h \in {"t", "r", "y"} \ {g} : registers'[h] = registers[h]
            /\ registers'.programCounter = Wide(2)]_vars

\* `new r = 0` has run to its end with t, r, y preset to 8, 5, 3.
C9_Witness ==
  /\ translated
  /\ IsZeroAssignment(program, "r")
  /\ runState = "returned"
  /\ registers.programCounter = Wide(2)
  /\ registers.t = Int2Rat(8)
  /\ registers.r = Int2Rat(0)
  /\ registers.y = Int2Rat(3)

\* The normalization the specification describes: drop everything from the
\* first `#` to the end of the line, then all whitespace, then lowercase.
DropFromFirstHash(line) ==
  IF \E i \in 1..Len(line) : CharAt(line, i) = "#"
    THEN SubSeq(line, 1,
           (CHOOSE i \in 1..Len(line) :
              CharAt(line, i) = "#" /\ \A j \in 1..(i - 1) : CharAt(line, j) # "#")
           - 1)
    ELSE line

RECURSIVE DropWhiteSpace(_)
DropWhiteSpace(s) ==
  IF s = "" THEN ""
  ELSE (IF Head(s) \in WhiteSpace THEN "" ELSE Head(s))
         \o DropWhiteSpace(Tail(s))

SpecifiedNormalization(line) ==
  toLowerCase(DropWhiteSpace(DropFromFirstHash(line)))

----------------------------------------------------------------------------
(* Properties of Gsx.runProgram and of the instructions.                   *)

\* The loop of runProgram is about to fetch the opcode of this mnemonic.
Fetching(mnemonic) ==
  /\ runState = "running"
  /\ IsWide(registers.programCounter)
  /\ WideLess(registers.programCounter, Wide(byteLength))
  /\ IsKey(normalizeMnemonic(mnemonic))
  /\ ByteOf(ProgramView, Narrow(registers.programCounter))
       = bytecodeByKeyableMnemonic[normalizeMnemonic(mnemonic)]

\* The value 2^32 - 1 = 65535 * 2^16 + 65535 of a program counter.
IsTwoToThe32MinusOne(pc) == IsWide(pc) /\ pc.hi = 65535 /\ pc.lo = 65535

\* C11: a call of run with bytecode of 3 * 2^20 bytes or more raises before
\* any opcode is fetched and leaves registers, RAM and both stacks as they
\* were; bytecode of 3 * 2^20 - 1 bytes is never refused, it is executed.
C11_ProgramTooLarge ==
  /\ [](runState = "running" => byteLength < 3 * 2^20)
  /\ [](byteLength = 3 * 2^20 - 1 => runState # "threw")
  /\ [][(runState \in {"idle", "returned"} /\ byteLength >= 3 * 2^20)
          => (runState' \in {runState, "threw"})]_vars
  /\ [][(runState \in {"idle", "returned"} /\ runState' = "threw")
          => (byteLength >= 3 * 2^20 /\ UNCHANGED gsxVars)]_vars
  /\ [][(runState \in {"idle", "returned"} /\ byteLength = 3 * 2^20 - 1
           /\ runState' # runState)
          => (runState' = "running" /\ UNCHANGED gsxVars)]_vars

\* A program of 3 * 2^20 - 1 bytes, `exit` and zero bytes, has run to its
\* end with t preset to 8.
C11_Witness ==
  /\ byteLength = 3 * 2^20 - 1
  /\ runState = "returned"
  /\ IsTwoToThe32MinusOne(registers.programCounter)
  /\ registers.t = Int2Rat(8)

\* C12: `exit` executed with JS = 0 sets PC to 2^32 - 1 and leaves JS at 0 and
\* every other register, the RAM and both stacks as they were; run then
\* returns without fetching another opcode.
C12_ExitOutsideAnyFunction ==
  /\ [][(Fetching("exit") /\ registers.jumpStackPointer = 0) =>
          /\ runState' = "running"
          /\ IsTwoToThe32MinusOne(registers'.programCounter)
          /\ registers'.jumpStackPointer = 0
          /\ registers'.argumentStackPointer = registers.argumentStackPointer
          /\ registers'.t = registers.t
          /\ registers'.r = registers.r
          /\ registers'.y = registers.y
          /\ UNCHANGED <<ram, argumentStack, jumpStack>>]_vars
  /\ [][(runState = "running"
           /\ IsTwoToThe32MinusOne(registers.programCounter))
          => (runState' = "returned" /\ UNCHANGED gsxVars)]_vars

\* `exit` has run on a machine with t, r, y preset to 8, 5, 3.
C12_Witness ==
  /\ program = "exit"
  /\ runState = "returned"
  /\ IsTwoToThe32MinusOne(registers.programCounter)
  /\ registers.jumpStackPointer = 0
  /\ registers.t = Int2Rat(8)
  /\ registers.r = Int2Rat(5)
  /\ registers.y = Int2Rat(3)

\* C13: `exit` executed with JS = n > 0 sets JS to n - 1 and PC to
\* jumpStack[n - 1] and does not modify the jump stack; with
\* jumpStack[0] = 100, jumpStack[1] = 24 and JS = 2 the result is PC = 24,
\* JS = 1.
C13_ExitWithinAFunction ==
  /\ [][(Fetching("exit") /\ registers.jumpStackPointer > 0) =>
          /\ registers'.jumpStackPointer = registers.jumpStackPointer - 1
          /\ registers'.programCounter =
               ReadAt(jumpStack, registers.jumpStackPointer - 1, Wide(0))
          /\ jumpStack' = jumpStack]_vars
  /\ [][(/\ Fetching("exit")
         /\ registers.jumpStackPointer = 2
         /\ ReadAt(jumpStack, 0, Wide(0)) = Wide(100)
         /\ ReadAt(jumpStack, 1, Wide(0)) = Wide(24)) =>
          /\ registers'.programCounter = Wide(24)
          /\ registers'.jumpStackPointer = 1
          /\ jumpStack' = jumpStack]_vars

\* `exit` has run with jumpStack[0] = 100, jumpStack[1] = 24 and JS = 2.
C13_Witness ==
  /\ program = "exit"
  /\ runState = "returned"
  /\ registers.programCounter = Wide(24)
  /\ registers.jumpStackPointer = 1
  /\ ReadAt(jumpStack, 0, Wide(0)) = Wide(100)
  /\ ReadAt(jumpStack, 1, Wide(0)) = Wide(24)

\* C14: when `run <reg>`, whose opcode byte is at address a, executes, the
\* return address written to jumpStack[JS] is a + 1, JS is then incremented
\* and PC is set to the value of the register, so the matching `exit`
\* resumes at the instruction immediately after the call.
C14_ReturnAddressIsOnePastCall ==
  [][\A register \in {"t", "r", "y"} :
       (Fetching("run " \o register) /\ registers.jumpStackPointer < 255) =>
         /\ ReadAt(jumpStack', registers.jumpStackPointer, Wide(0))
              = WidePlus(registers.programCounter, 1)
         /\ registers'.jumpStackPointer = registers.jumpStackPointer + 1
         /\ registers'.programCounter
              = toUint32(get(registers, register))]_vars

C16_PushThenPop ==
  /\ [][\A g \in {"t", "r", "y"} :
          Fetching("push " \o g) =>
            /\ ReadAt(argumentStack', registers.argumentStackPointer,
                      Int2Rat(0)) = get(registers, g)
            /\ \A i \in DOMAIN argumentStack' :
                 i # registers.argumentStackPointer =>
                   /\ i \in DOMAIN argumentStack
                   /\ argumentStack'[i] = argumentStack[i]
            /\ registers.argumentStackPointer < 255 =>
                 registers'.argumentStackPointer
                   = registers.argumentStackPointer + 1
            /\ \A h \in {"t", "r", "y"} : registers'[h] = registers[h]]_vars
  /\ [][\A g \in {"t", "r", "y"} :
          (Fetching("new " \o g \o " = pop")
             /\ registers.argumentStackPointer > 0) =>
            /\ registers'.argumentStackPointer
                 = registers.argumentStackPointer - 1
            /\ registers'[g] =
                 ReadAt(argumentStack, registers.argumentStackPointer - 1,
                        Int2Rat(0))
            /\ argumentStack' = argumentStack]_vars
  /\ [][(/\ program = "push t\nnew r = pop"
         /\ Fetching("new r = pop")
         /\ registers.programCounter = Wide(1)
         /\ registers.argumentStackPointer \in 1..254) =>
          /\ registers'.r = registers.t
          /\ registers'.t = registers.t
          /\ registers'.argumentStackPointer
               = registers.argumentStackPointer - 1]_vars
  /\ [][(/\ program = "push t\npush r\nnew y = pop\nnew t = pop"
         /\ Fetching("new y = pop")
         /\ registers.programCounter = Wide(2)
         /\ registers.argumentStackPointer \in 2..254) =>
          /\ registers'.y = registers.r
          /\ ReadAt(argumentStack', registers'.argumentStackPointer - 1,
                    Int2Rat(0)) = registers.t
          /\ registers'.argumentStackPointer
               = registers.argumentStackPointer - 1]_vars
  /\ [][(/\ program = "push t\npush r\nnew y = pop\nnew t = pop"
         /\ Fetching("new t = pop")
         /\ registers.programCounter = Wide(3)
         /\ registers.argumentStackPointer \in 1..253) =>
          /\ registers'.t = registers.t
          /\ registers'.y = registers.r
          /\ registers'.argumentStackPointer
               = registers.argumentStackPointer - 1]_vars

\* Two pushes (t = 8, then r = 5) and two pops (into y, then into t) have
\* run from AS = 0: y holds the value pushed last, t the value pushed first.
C16_Witness ==
  /\ program = "push t\npush r\nnew y = pop\nnew t = pop"
  /\ runState = "returned"
  /\ registers.programCounter = Wide(4)
  /\ registers.argumentStackPointer = 0
  /\ registers.t = Int2Rat(8)
  /\ registers.r = Int2Rat(5)
  /\ registers.y = Int2Rat(5)
  /\ ReadAt(argumentStack, 0, Int2Rat(0)) = Int2Rat(8)
  /\ ReadAt(argumentStack, 1, Int2Rat(0)) = Int2Rat(5)

\* C17 (as stated): stack-pointer overflow and underflow wrap at the 8-bit
\* modulus: a push (or call) executed with the pointer at 255 leaves the
\* pointer at 0, and a pop executed with the pointer at 0 leaves it at 255.
C17_StackPointersWrap ==
  [][\A g \in {"t", "r", "y"} :
       /\ (Fetching("push " \o g) /\ registers.argumentStackPointer = 255)
            => registers'.argumentStackPointer = 0
       /\ (Fetching("run " \o g) /\ registers.jumpStackPointer = 255)
            => registers'.jumpStackPointer = 0
       /\ (Fetching("new " \o g \o " = pop")
             /\ registers.argumentStackPointer = 0)
            => registers'.argumentStackPointer = 255]_vars

\* C17 (amended): stack-pointer overflow and underflow saturate: a push (or
\* call) executed with the pointer at 255 leaves the pointer at 255, a pop
\* executed with the pointer at 0 leaves it at 0 (and reads
\* argumentStack[0]), and `exit` executed with JS = 0 does not decrement.
C17_StackPointersSaturate ==
  [][/\ \A g \in {"t", "r", "y"} :
          /\ (Fetching("push " \o g) /\ registers.argumentStackPointer = 255)
               => registers'.argumentStackPointer = 255
          /\ (Fetching("run " \o g) /\ registers.jumpStackPointer = 255)
               => registers'.jumpStackPointer = 255
          /\ (Fetching("new " \o g \o " = pop")
                /\ registers.argumentStackPointer = 0) =>
               /\ registers'.argumentStackPointer = 0
               /\ registers'[g] = ReadAt(argumentStack, 0, Int2Rat(0))
     /\ (Fetching("exit") /\ registers.jumpStackPointer = 0)
          => registers'.jumpStackPointer = 0]_vars

\* `push t` has executed with AS = 255 and t = 8: AS is still 255 and the
\* value is in argumentStack[255].
C17_Witness ==
  /\ program = "push t\nnew r = pop"
  /\ runState = "running"
  /\ registers.programCounter = Wide(1)
  /\ registers.argumentStackPointer = 255
  /\ ReadAt(argumentStack, 255, Int2Rat(0)) = Int2Rat(8)

\* `run t` has executed with JS = 255: JS is still 255.
C17_CallAtFullJumpStack ==
  /\ program = "new t = 3\nrun t\nexit"
  /\ runState = "running"
  /\ registers.programCounter = Wide(3)
  /\ registers.jumpStackPointer = 255

\* `new r = pop` has executed with AS = 0: AS is still 0.
C17_PopAtEmptyStack ==
  /\ program = "new r = pop"
  /\ runState = "returned"
  /\ registers.programCounter = Wide(1)
  /\ registers.argumentStackPointer = 0

\* C18: in every reachable state AS and JS are integers in 0..255 and PC is
\* an integer in 0..2^32 - 1 (two 16-bit halves, each in 0..65535).
C18_PointersAndCounterInRange ==
  /\ registers.argumentStackPointer \in 0..255
  /\ registers.jumpStackPointer \in 0..255
  /\ IsWide(registers.programCounter)
  /\ registers.programCounter.hi \in 0..65535
  /\ registers.programCounter.lo \in 0..65535

\* C19: after reset, from any reachable state, PC, AS, JS, T, R and Y are
\* all 0 and every RAM byte is 0.
C19_ResetClearsRegistersAndRam ==
  [][Reset =>
       /\ registers'.programCounter = Wide(0)
       /\ registers'.argumentStackPointer = 0
       /\ registers'.jumpStackPointer = 0
       /\ registers'.t = Int2Rat(0)
       /\ registers'.r = Int2Rat(0)
       /\ registers'.y = Int2Rat(0)
       /\ \A address \in DOMAIN ram' : ram'[address] = 0]_vars

\* The machine has been reset after `push r`, `new ram[t] byte = r` ran with
\* r = 5: the 5 is still in the argument stack, every register and the RAM
\* byte it was written to are 0.
C19_Witness ==
  /\ program = "push r\nnew ram[t] byte = r"
  /\ runState = "returned"
  /\ registers = NewRegisters
  /\ \A address \in DOMAIN ram : ram[address] = 0
  /\ ReadAt(argumentStack, 0, Int2Rat(0)) = Int2Rat(5)

\* C20: reset leaves the contents of the argument stack buffer and of the
\* jump stack buffer unchanged; only the pointers AS and JS are reset.
C20_ResetKeepsStackBuffers ==
  [][Reset =>
       /\ argumentStack' = argumentStack
       /\ jumpStack' = jumpStack
       /\ registers'.argumentStackPointer = 0
       /\ registers'.jumpStackPointer = 0]_vars

\* The machine has been reset with 5 in the argument stack and the return
\* addresses 100 and 24 in the jump stack: the buffers still hold them and
\* both pointers are 0.
C20_Witness ==
  /\ program = "push r\nnew ram[t] byte = r"
  /\ runState = "returned"
  /\ registers.programCounter = Wide(0)
  /\ registers.argumentStackPointer = 0
  /\ registers.jumpStackPointer = 0
  /\ ReadAt(argumentStack, 0, Int2Rat(0)) = Int2Rat(5)
  /\ ReadAt(jumpStack, 0, Wide(0)) = Wide(100)
  /\ ReadAt(jumpStack, 1, Wide(0)) = Wide(24)

\* The opcode the dictionary has for a mnemonic, -1 if it has none.
OpcodeOf(mnemonic) ==
  IF IsKey(normalizeMnemonic(mnemonic))
    THEN bytecodeByKeyableMnemonic[normalizeMnemonic(mnemonic)]
    ELSE -1

\* Both spellings are keys of one opcode.
Synonyms(m1, m2) == OpcodeOf(m1) # -1 /\ OpcodeOf(m1) = OpcodeOf(m2)

\* Both spellings are keys, of different opcodes.
Distinct(m1, m2) ==
  OpcodeOf(m1) # -1 /\ OpcodeOf(m2) # -1 /\ OpcodeOf(m1) # OpcodeOf(m2)

\* `new a = b <sign> c`
Binary(a, b, sign, c) == "new " \o a \o " = " \o b \o " " \o sign \o " " \o c

----------------------------------------------------------------------------
(* Properties of single instructions, checked on the seeded machine.       *)

\* The general purpose registers other than `register` are as they were, and
\* so are both stack pointers, the RAM and both stacks.
OnlyRegisterChanges(register) ==
  /\ \A other \in {"t", "r", "y"} \ {register} :
       registers'[other] = registers[other]
  /\ registers'.argumentStackPointer = registers.argumentStackPointer
  /\ registers'.jumpStackPointer = registers.jumpStackPointer
  /\ UNCHANGED <<ram, argumentStack, jumpStack>>

\* Whether a register holds the address of a byte of the RAM.
HoldsAddress(register) ==
  /\ registers[register].d = 1
  /\ registers[register].n \in 0..(3 * 1048576 - 1)

\* The byte of the RAM at an address, as a two's complement number.
SignedByteAt(address) ==
  IF ReadAt(ram, address, 0) >= 128
    THEN ReadAt(ram, address, 0) - 256
    ELSE ReadAt(ram, address, 0)

\* The big-endian float32 values of the seeded RAM at the addresses the
\* seeds use, and of the zero-filled RAM.
FloatAt(address) ==
  IF ram = EmptyBuffer THEN [n |-> 0, d |-> 1]
  ELSE CASE address = 0 -> [n |-> 164103, d |-> 32768]
         [] address = 2 -> [n |-> 12599359, d |-> 524288]
         [] address = 3 -> [n |-> -98431, d |-> 32768]
         [] address = 5 -> [n |-> 8388801, d |-> 8388608]
         [] address = 8 -> [n |-> -10, d |-> 1]

\* C21: for every ordered pair (v, a) of general registers, v = a included,
\* `new v = ram[a] byte` sets v to the signed byte at the RAM address a
\* holds and leaves the other general registers, AS, JS, the RAM and both
\* stacks unchanged; `new v = ram[a] float` does the same with the four-byte
\* big-endian value at that address.
C21_RamReads ==
  [][\A v \in {"t", "r", "y"}, a \in {"t", "r", "y"} :
       /\ (Fetching("new " \o v \o " = ram[" \o a \o "] byte")
             /\ HoldsAddress(a)) =>
            /\ runState' = "running"
            /\ registers'[v] = [n |-> SignedByteAt(registers[a].n), d |-> 1]
            /\ OnlyRegisterChanges(v)
       /\ (Fetching("new " \o v \o " = ram[" \o a \o "] float")
             /\ HoldsAddress(a)
             /\ ram \in {EmptyBuffer, SeededRam}) =>
            /\ runState' = "running"
            /\ registers'[v] = FloatAt(registers[a].n)
            /\ OnlyRegisterChanges(v)]_vars

\* `new t = ram[t] byte` has run with t = 3 and the byte 192 at address 3:
\* t is -64, r and y are as seeded.
C21_Witness ==
  /\ program = "newt=ram[t]byte"
  /\ runState = "returned"
  /\ ram = SeededRam
  /\ registers.t = [n |-> -64, d |-> 1]
  /\ registers.r = [n |-> 0, d |-> 1]
  /\ registers.y = [n |-> 8, d |-> 1]

\* `new y = ram[r] float` has run with r = 5: y is the float 3F8000C1.
C21_FloatRead ==
  /\ program = "newy=ram[r]float"
  /\ runState = "returned"
  /\ registers.y = [n |-> 8388801, d |-> 8388608]
  /\ registers.r = [n |-> 5, d |-> 1]

\* Whether a register holds an integer in [-128, 127].
HoldsInt8(register) ==
  /\ registers[register].d = 1
  /\ registers[register].n \in -128..127

\* The two-line program that writes v to the RAM at address a and reads the
\* same address into w.
WriteThenRead(a, v, w, size) ==
  "new ram[" \o a \o "] " \o size \o " = " \o v
    \o "\nnew " \o w \o " = ram[" \o a \o "] " \o size

\* C22: for distinct general registers a and v with v holding an integer in
\* [-128, 127], `new ram[a] byte = v` changes exactly the one RAM byte at
\* the address a holds and no register, and a following
\* `new w = ram[a] byte` sets w to the value of v.
C22_RamByteWriteThenRead ==
  [][\A a \in {"t", "r", "y"} : \A v \in {"t", "r", "y"} \ {a} :
       /\ (Fetching("new ram[" \o a \o "] byte = " \o v)
             /\ HoldsAddress(a) /\ HoldsInt8(v)) =>
            /\ runState' = "running"
            /\ \A g \in {"t", "r", "y", "argumentStackPointer",
                         "jumpStackPointer"} : registers'[g] = registers[g]
            /\ UNCHANGED <<argumentStack, jumpStack>>
            /\ ReadAt(ram', registers[a].n, 0) = registers[v].n % 256
            /\ \A address \in (DOMAIN ram \cup DOMAIN ram') \ {registers[a].n} :
                 ReadAt(ram', address, 0) = ReadAt(ram, address, 0)
       /\ \A w \in {"t", "r", "y"} :
            (/\ program = WriteThenRead(a, v, w, "byte")
             /\ Fetching("new " \o w \o " = ram[" \o a \o "] byte")
             /\ registers.programCounter = Wide(1)
             /\ HoldsAddress(a) /\ HoldsInt8(v)) =>
              registers'[w] = registers[v]]_vars

\* `new ram[t] byte = r`, `new y = ram[t] byte` has run with t = 5 and
\* r = -3: the byte at address 5 is 253 and y is -3.
C22_Witness ==
  /\ program = "new ram[t] byte = r\nnew y = ram[t] byte"
  /\ runState = "returned"
  /\ registers.t = [n |-> 5, d |-> 1]
  /\ registers.r = [n |-> -3, d |-> 1]
  /\ registers.y = [n |-> -3, d |-> 1]
  /\ ReadAt(ram, 5, 0) = 253

\* C23: translating and running the program `new t = 12`, `new r = 3`,
\* `new y = t + r`, `new y = y * 2`, `new t = 0`, `new ram[t] byte = y`
\* produces no error and ends with T = 0, R = 3, Y = 30 and the RAM byte 0
\* equal to 30.
C23_AppProgram ==
  program = AppProgram =>
    /\ translated => (syntaxErrors = <<>> /\ Len(bytecode) = 9)
    /\ runState # "threw"
    /\ runState = "returned" =>
         /\ registers.t = [n |-> 0, d |-> 1]
         /\ registers.r = [n |-> 3, d |-> 1]
         /\ registers.y = [n |-> 30, d |-> 1]
         /\ ReadAt(ram, 0, 0) = 30

\* The program has run on the new machine: only byte 0 of the RAM is set.
C23_Witness ==
  /\ program = AppProgram
  /\ runState = "returned"
  /\ registers.programCounter = Wide(9)
  /\ registers.y = [n |-> 30, d |-> 1]
  /\ DOMAIN ram = {0}
  /\ ReadAt(ram, 0, 0) = 30

\* The float32 a register holds after it is set to `left <sign> right`.
Computed(left, sign, right) ==
  toFloat32(CASE sign = "+" -> Add(left, right)
              [] sign = "*" -> Multiply(left, right)
              [] sign = "-" -> Subtract(left, right)
              [] sign = "/" -> Divide(left, right))

\* C25: for every arithmetic mnemonic `new a = b op c` (op one of +, *, -,
\* /), executing the opcode the dictionary maps it to sets a to
\* (old b) op (old c), the operands in the written order, also when a is
\* one of the operands, and leaves the other two general registers, AS, JS,
\* the RAM and both stacks unchanged.
C25_ArithmeticInWrittenOrder ==
  /\ [][\A a \in {"t", "r", "y"}, b \in {"t", "r", "y"},
          c \in {"t", "r", "y"}, sign \in {"+", "*", "-", "/"} :
          Fetching(Binary(a, b, sign, c)) =>
            /\ runState' = "running"
            /\ registers'[a] = Computed(registers[b], sign, registers[c])
            /\ OnlyRegisterChanges(a)]_vars
  /\ [][(/\ registers.t = [n |-> 8, d |-> 1]
         /\ registers.r = [n |-> 5, d |-> 1]
         /\ registers.y = [n |-> 2, d |-> 1]) =>
          /\ Fetching("new t = r / y") => registers'.t = [n |-> 5, d |-> 2]
          /\ Fetching("new t = y / r") =>
               registers'.t = [n |-> 13421773, d |-> 33554432]
          /\ Fetching("new r = r - t") => registers'.r = [n |-> -3, d |-> 1]
          /\ Fetching("new r = t - r") => registers'.r = [n |-> 3, d |-> 1]
          /\ Fetching("new y = y / t") => registers'.y = [n |-> 1, d |-> 4]
          /\ Fetching("new y = t * r") => registers'.y = [n |-> 40, d |-> 1]
          /\ Fetching("new y = t + r") => registers'.y = [n |-> 13, d |-> 1]
          /\ Fetching("new y = y^2") => registers'.y = [n |-> 4, d |-> 1]
          /\ Fetching("new y = 2 * y") => registers'.y = [n |-> 4, d |-> 1]
          ]_vars

\* `new t = r / y` has run with (t, r, y) = (8, 5, 2): t is 2.5.
C25_Witness ==
  /\ program = "newt=r/y"
  /\ runState = "returned"
  /\ registers.t = [n |-> 5, d |-> 2]
  /\ registers.r = [n |-> 5, d |-> 1]
  /\ registers.y = [n |-> 2, d |-> 1]

\* The keys of the dictionary whose instructions set the program counter.
ExitAndRunKeys == {"exit", "runt", "runr", "runy"}

\* Whether the program is the opcode of one dictionary mnemonic other than
\* exit and run.
OneByteProgram ==
  /\ translated
  /\ Len(bytecode) = 1
  /\ byteLength = 1
  /\ \E mnemonic \in DOMAIN bytecodeByKeyableMnemonic \ ExitAndRunKeys :
       bytecodeByKeyableMnemonic[mnemonic] = bytecode[1]

\* C26: for every dictionary mnemonic other than exit and run, executing the
\* one-byte program that is its opcode from PC = 0 ends with PC = 1: the
\* step that executes the opcode advances PC by exactly one, whether the
\* handler returns or raises, and the run ends with PC = 1.
C26_OneByteProgramAdvancesByOne ==
  /\ [][(OneByteProgram /\ runState = "running"
           /\ registers.programCounter = Wide(0)) =>
          /\ registers'.programCounter = Wide(1)
          /\ runState' \in {"running", "threw"}]_vars
  /\ [](OneByteProgram =>
          /\ registers.programCounter \in {Wide(0), Wide(1)}
          /\ runState \in {"returned", "threw"} =>
               registers.programCounter = Wide(1))

\* `new y = r * t` has run with (t, r, y) = (8, 5, 2) and returned.
C26_Witness ==
  /\ OneByteProgram
  /\ program = "newy=r*t"
  /\ runState = "returned"
  /\ registers.y = [n |-> 40, d |-> 1]
  /\ registers.programCounter = Wide(1)

\* A RAM read at a negative address raised: the counter is 1 all the same.
C26_RaisedAfterAdvance ==
  /\ OneByteProgram
  /\ program = "newt=ram[r]byte"
  /\ registers.r = [n |-> -3, d |-> 1]
  /\ runState = "threw"
  /\ registers.programCounter = Wide(1)

\* The line `new g = c` for every general register g and every int8 c.
ByteLoadLines ==
  [g \in {"t", "r", "y"}, c \in INT8_MIN..INT8_MAX |-> ConstantLine(g, c)]

ByteLoadTexts ==
  {ByteLoadLines[g, c] : g \in {"t", "r", "y"}, c \in INT8_MIN..INT8_MAX}

\* What holds of the program `new g = c` once translated, and once run.
ByteLoadOf(g, c) ==
  /\ program = ByteLoadLines[g, c]
  /\ runState # "threw"
  /\ runState = "returned" =>
       /\ registers[g] = [n |-> c, d |-> 1]
       /\ registers.programCounter = Wide(2)
       /\ ram = EmptyBuffer =>
            \A other \in {"t", "r", "y"} \ {g} :
              registers[other] = [n |-> 0, d |-> 1]

\* C27: for every general register g and every integer c in -128..127,
\* `new g = c` translates without error to two bytes, the opcode of the
\* byte load of g and the two's complement byte of c; running them never
\* raises and ends with g = c and PC = 2; the step that executes the load
\* changes nothing else, so on the new machine the other two general
\* registers are 0.
C27_ByteLoad ==
  /\ [](program \in ByteLoadTexts =>
          /\ translated
          /\ syntaxErrors = <<>>
          /\ Len(bytecode) = 2
          /\ bytecode[1] \in 0..2
          /\ bytecode[2] \in 0..255
          /\ ByteLoadOf(generalPurposeRegisters[bytecode[1] + 1],
                        IF bytecode[2] > 127 THEN bytecode[2] - 256
                                             ELSE bytecode[2]))
  /\ [][(/\ runState = "running"
         /\ registers.programCounter = Wide(0)
         /\ program \in ByteLoadTexts) =>
          /\ OnlyRegisterChanges(generalPurposeRegisters[bytecode[1] + 1])
          /\ registers'.programCounter = Wide(2)]_vars

\* `new r = -128` has run on the new machine.
C27_Witness ==
  /\ program = "new r = -128"
  /\ bytecode = <<1, 128>>
  /\ runState = "returned"
  /\ registers.r = [n |-> -128, d |-> 1]
  /\ registers.t = [n |-> 0, d |-> 1]
  /\ registers.y = [n |-> 0, d |-> 1]
  /\ registers.programCounter = Wide(2)

\* The float constant loads of the tests: the register, the opcode and the
\* four bytes of the IEEE 754 binary32 encoding of the constant, most
\* significant byte first, and the number those bytes encode.
FloatLoads ==
  ("new t = 1.5" :> [to |-> "t", bytes |-> <<3, 63, 192, 0, 0>>,
                     value |-> [n |-> 3, d |-> 2]])
  @@ ("new r = -2.25" :> [to |-> "r", bytes |-> <<4, 192, 16, 0, 0>>,
                          value |-> [n |-> -9, d |-> 4]])
  @@ ("new y = 0.1" :> [to |-> "y", bytes |-> <<5, 61, 204, 204, 205>>,
                        value |-> [n |-> 13421773, d |-> 134217728]])
  @@ ("new t = 300" :> [to |-> "t", bytes |-> <<3, 67, 150, 0, 0>>,
                        value |-> [n |-> 300, d |-> 1]])
  @@ ("new y = -129" :> [to |-> "y", bytes |-> <<5, 195, 1, 0, 0>>,
                         value |-> [n |-> -129, d |-> 1]])
  @@ ("new r = 127.5" :> [to |-> "r", bytes |-> <<4, 66, 255, 0, 0>>,
                          value |-> [n |-> 255, d |-> 2]])

\* The binary32 encoding, most significant byte first, of the integers the
\* registers of the seeded machine hold.
SeedFloatBytes(number) ==
  CASE number = 0 -> <<0, 0, 0, 0>>
    [] number = 2 -> <<64, 0, 0, 0>>
    [] number = 3 -> <<64, 64, 0, 0>>
    [] number = 5 -> <<64, 160, 0, 0>>
    [] number = 8 -> <<65, 0, 0, 0>>
    [] number = -3 -> <<192, 64, 0, 0>>

\* C28: translate emits for a float constant the opcode and the four bytes
\* of its binary32 encoding, most significant byte first; the float load
\* reads them in that order and advances PC by 4, so running `new g = x`
\* leaves g equal to the encoded value and PC = 5; `new ram[a] float = v`
\* stores the four bytes of v most significant byte first at the address a
\* holds, and a following `new w = ram[a] float` sets w to the value of v.
C28_FloatBytesRoundTrip ==
  /\ [](program \in DOMAIN FloatLoads =>
          /\ translated
          /\ syntaxErrors = <<>>
          /\ bytecode = FloatLoads[program].bytes
          /\ runState # "threw"
          /\ runState = "returned" =>
               /\ registers[FloatLoads[program].to] = FloatLoads[program].value
               /\ registers.programCounter = Wide(5))
  /\ [][(/\ program \in DOMAIN FloatLoads
         /\ runState = "running"
         /\ registers.programCounter = Wide(0)) =>
          /\ registers'[FloatLoads[program].to] = FloatLoads[program].value
          /\ OnlyRegisterChanges(FloatLoads[program].to)
          /\ registers'.programCounter = Wide(5)]_vars
  /\ [][\A a \in {"t", "r", "y"} : \A v \in {"t", "r", "y"} \ {a} :
          /\ (Fetching("new ram[" \o a \o "] float = " \o v)
                /\ HoldsAddress(a)) =>
               /\ runState' = "running"
               /\ registers' = [registers EXCEPT !.programCounter =
                                  registers'.programCounter]
               /\ UNCHANGED <<argumentStack, jumpStack>>
               /\ \A k \in 0..3 :
                    ReadAt(ram', registers[a].n + k, 0)
                      = SeedFloatBytes(registers[v].n)[k + 1]
               /\ \A address \in (DOMAIN ram \cup DOMAIN ram')
                      \ (registers[a].n..(registers[a].n + 3)) :
                    ReadAt(ram', address, 0) = ReadAt(ram, address, 0)
          /\ \A w \in {"t", "r", "y"} :
               (/\ program = WriteThenRead(a, v, w, "float")
                /\ Fetching("new " \o w \o " = ram[" \o a \o "] float")
                /\ registers.programCounter = Wide(1)
                /\ HoldsAddress(a)) =>
                 /\ registers'[w] = registers[v]
                 /\ OnlyRegisterChanges(w)]_vars

\* `new y = 0.1` has run: y is the binary32 number nearest to 0.1.
C28_Witness ==
  /\ program = "new y = 0.1"
  /\ bytecode = <<5, 61, 204, 204, 205>>
  /\ runState = "returned"
  /\ registers.y = [n |-> 13421773, d |-> 134217728]
  /\ registers.programCounter = Wide(5)

\* `new ram[t] float = r`, `new y = ram[t] float` has run with t = 8 and
\* r = 5: the RAM holds 64, 160, 0, 0 from address 8 and y is 5.
C28_RamRoundTrip ==
  /\ program = "new ram[t] float = r\nnew y = ram[t] float"
  /\ runState = "returned"
  /\ registers.t = [n |-> 8, d |-> 1]
  /\ registers.r = [n |-> 5, d |-> 1]
  /\ registers.y = [n |-> 5, d |-> 1]
  /\ ReadAt(ram, 8, 0) = 64
  /\ ReadAt(ram, 9, 0) = 160
  /\ ReadAt(ram, 10, 0) = 0
  /\ ReadAt(ram, 11, 0) = 0

----------------------------------------------------------------------------
(* Properties of the dictionary of mnemonics.                              *)

\* C24: commutative synonyms share one opcode: for every target register
\* both operand orders of an addition and of a multiplication (of the other
\* two registers, and of the register and another one) map to one opcode,
\* the three spellings of a doubling map to one opcode, the two spellings
\* of a squaring map to one opcode; the two operand orders of a subtraction
\* or of a division map to different opcodes.
C24_CommutativeSynonyms ==
  ModuleLoaded =>
    \A g \in {"t", "r", "y"} :
      /\ \A sign \in {"+", "*"} :
           \A b \in {"t", "r", "y"} : \A c \in {"t", "r", "y"} \ {b} :
             Synonyms(Binary(g, b, sign, c), Binary(g, c, sign, b))
      /\ Synonyms(Binary(g, g, "+", g), "new " \o g \o " = 2 * " \o g)
      /\ Synonyms(Binary(g, g, "+", g), "new " \o g \o " = " \o g \o " * 2")
      /\ Synonyms(Binary(g, g, "*", g), "new " \o g \o " = " \o g \o "^2")
      /\ Distinct(Binary(g, g, "+", g), Binary(g, g, "*", g))
      /\ \A sign \in {"-", "/"} :
           \A b \in {"t", "r", "y"} : \A c \in {"t", "r", "y"} \ {b} :
             Distinct(Binary(g, b, sign, c), Binary(g, c, sign, b))

\* The dictionary is complete: `new t = r + y` and `new t = y + r` are keys
\* of one opcode, `new t = r - y` and `new t = y - r` of two.
C24_Witness ==
  /\ ModuleLoaded
  /\ OpcodeOf("new t = r + y") >= 6
  /\ OpcodeOf("new t = r + y") = OpcodeOf("new t = y + r")
  /\ OpcodeOf("new y = 2 * y") = OpcodeOf("new y = y * 2")
  /\ OpcodeOf("new t = r - y") >= 6
  /\ OpcodeOf("new t = y - r") >= 6
  /\ OpcodeOf("new t = r - y") # OpcodeOf("new t = y - r")


\* The triples (target, left, right) of three different registers, and the
\* pairs (target, other) of two different registers.
ThreeRegisters ==
  {x \in {"t", "r", "y"} \X {"t", "r", "y"} \X {"t", "r", "y"} :
     x[1] # x[2] /\ x[1] # x[3] /\ x[2] # x[3]}
TwoRegisters == {x \in {"t", "r", "y"} \X {"t", "r", "y"} : x[1] # x[2]}

\* `new a = b <sign> c` for three different registers.
ThreeOperand(sign) == {Binary(x[1], x[2], sign, x[3]) : x \in ThreeRegisters}

\* `new g = g <sign> o` and `new g = o <sign> g` for two different registers.
TargetInOperand(sign) ==
  {Binary(x[1], x[1], sign, x[2]) : x \in TwoRegisters}
    \cup {Binary(x[1], x[2], sign, x[1]) : x \in TwoRegisters}

\* The mnemonics of the families of keyable instructions, the families
\* numbered in the order of the definition sequence.
FamilyMnemonics(family) ==
  CASE family = 1 -> {"exit"}
    [] family = 2 -> {"run " \o g : g \in {"t", "r", "y"}}
    [] family = 3 -> {"push " \o g : g \in {"t", "r", "y"}}
    [] family = 4 -> {"new " \o g \o " = pop" : g \in {"t", "r", "y"}}
    [] family = 5 -> {"new " \o v \o " = ram[" \o a \o "] byte" :
                        v \in {"t", "r", "y"}, a \in {"t", "r", "y"}}
    [] family = 6 -> {"new " \o v \o " = ram[" \o a \o "] float" :
                        v \in {"t", "r", "y"}, a \in {"t", "r", "y"}}
    [] family = 7 -> {"new ram[" \o x[1] \o "] byte = " \o x[2] :
                        x \in TwoRegisters}
    [] family = 8 -> {"new ram[" \o x[1] \o "] float = " \o x[2] :
                        x \in TwoRegisters}
    [] family = 9 -> ThreeOperand("+")
    [] family = 10 -> {Binary(g, g, "+", g) : g \in {"t", "r", "y"}}
                        \cup {"new " \o g \o " = 2 * " \o g : g \in {"t", "r", "y"}}
                        \cup {"new " \o g \o " = " \o g \o " * 2" : g \in {"t", "r", "y"}}
    [] family = 11 -> TargetInOperand("+")
    [] family = 12 -> ThreeOperand("*")
    [] family = 13 -> {Binary(g, g, "*", g) : g \in {"t", "r", "y"}}
                        \cup {"new " \o g \o " = " \o g \o "^2" : g \in {"t", "r", "y"}}
    [] family = 14 -> TargetInOperand("*")
    [] family = 15 -> ThreeOperand("-")
    [] family = 16 -> TargetInOperand("-")
    [] family = 17 -> ThreeOperand("/")
    [] family = 18 -> TargetInOperand("/")

\* The dictionary keys of the families.
FamilyKeys ==
  [family \in 1..18 |->
     {normalizeMnemonic(m) : m \in FamilyMnemonics(family)}]

\* C29: once the module is loaded the keys of the dictionary are the
\* mnemonics of the eighteen families (exit, run, push, pop, byte reads,
\* float reads, byte writes, float writes, three-register add, self-double,
\* register-plus-other, three-register multiply, self-square,
\* register-times-other, three-operand subtraction, target-in-operand
\* subtraction, three-operand division, target-in-operand division), and a
\* mnemonic of an earlier family has a smaller opcode in the dictionary than
\* a mnemonic of a later family.
C29_OpcodesFollowFamilyOrder ==
  ModuleLoaded =>
    /\ DOMAIN bytecodeByKeyableMnemonic
         = UNION {FamilyKeys[family] : family \in 1..18}
    /\ \A f1 \in 1..18, f2 \in 1..18 :
         f1 < f2 =>
           \A m1 \in FamilyKeys[f1], m2 \in FamilyKeys[f2] :
             bytecodeByKeyableMnemonic[m1] < bytecodeByKeyableMnemonic[m2]

\* The module is loaded: the last multiplication is opcode 141, the first
\* subtraction the dictionary knows is opcode 142.
C29_Witness ==
  /\ ModuleLoaded
  /\ OpcodeOf("new y = r * y") = 141
  /\ OpcodeOf("new t = r - y") = 142
  /\ OpcodeOf("new y = r / y") = 177

\* The same order while the module body is being evaluated: it fails between
\* the passes of the loop of line 471, where a subtraction of the first pass
\* has a smaller opcode than a multiplication of the second pass.
C29_FamilyOrderInEveryState ==
  \A f1 \in 1..18, f2 \in 1..18 :
    f1 < f2 =>
      \A m1 \in FamilyKeys[f1], m2 \in FamilyKeys[f2] :
        (IsKey(m1) /\ IsKey(m2)) =>
          bytecodeByKeyableMnemonic[m1] < bytecodeByKeyableMnemonic[m2]


\* C30: while the module body is evaluated no dictionary key is overwritten:
\* a step never changes the opcode of a mnemonic that is already a key, so
\* once the module is loaded the table has one slot per instruction form,
\* each slot the opcode of at least one key.
C30_NoKeyIsOverwritten ==
  /\ [][\A m \in DOMAIN bytecodeByKeyableMnemonic :
          /\ m \in DOMAIN bytecodeByKeyableMnemonic'
          /\ bytecodeByKeyableMnemonic'[m] = bytecodeByKeyableMnemonic[m]]_vars
  /\ [](ModuleLoaded =>
          \A opcode \in NumberOfPushes..(Len(instructionByBytecode) - 1) :
            \E m \in DOMAIN bytecodeByKeyableMnemonic :
              bytecodeByKeyableMnemonic[m] = opcode)

\* The second pass of the loop of line 471 has defined `new t = r - y`
\* again: the key that was opcode 66 is opcode 104.
C30_KeyOverwritten ==
  /\ OpcodeOf("new t = r - y") = 104
  /\ Len(instructionByBytecode) > 104
  /\ instructionByBytecode[67] = instructionByBytecode[105]


----------------------------------------------------------------------------
(* Properties of calls, returns and termination.                           *)

\* translateToBytecode reported no error for the program.
ErrorFree == translated /\ syntaxErrors = <<>>

\* No line of the program is a `run <reg>`.
RunFree ==
  \A line \in SeqToSet(SplitLines(program)) :
    normalizeMnemonic(line) \notin {"runt", "runr", "runy"}

\* The loop of runProgram is about to fetch the byte at the program counter.
AboutToFetch == runState = "running" /\ LoopCondition(registers, ProgramView)
FetchedByte == ByteOf(ProgramView, Narrow(registers.programCounter))

\* The call of runProgram has returned or raised.
Ended == runState \in {"returned", "threw"}

\* A first call of runProgram, which starts with PC = 0, is running an
\* error-free program without a `run <reg>` line.
RunFreeRun == runState = "running" /\ calls = 1 /\ ErrorFree /\ RunFree

\* The instruction at PC raises PC, or is an exit that lowers JS.
AdvancesOrReturns ==
  \/ WideLess(registers.programCounter, registers'.programCounter)
  \/ /\ FetchedByte = OpcodeOf("exit")
     /\ registers'.jumpStackPointer < registers.jumpStackPointer

\* C31: a run of an error-free program without a `run <reg>` line, started
\* with PC = 0, any JS and any jump stack contents, terminates, and each
\* instruction it executes either increases PC or is an exit that decreases
\* JS or ends the program.
C31_RunFreeProgramsTerminate ==
  /\ RunFreeRun ~> Ended
  /\ [][(RunFreeRun /\ RunInstruction) => AdvancesOrReturns]_vars

\* `constructor`, `new t = 7` on the new machine: the byte 7 of the second
\* line is executed as `run t` again and again, the jump stack is full.
C31_LoopsWithoutRunLine ==
  /\ program = "constructor\nnew t = 7"
  /\ bytecode = <<0, 0, 7>>
  /\ syntaxErrors = <<>>
  /\ runState = "running"
  /\ registers.programCounter = Wide(0)
  /\ registers.jumpStackPointer = 255
  /\ \A i \in 0..255 : ReadAt(jumpStack, i, Wide(0)) = Wide(4)

\* The first call of runProgram, on the new machine, with the program
\* `new t = 0`, `run t`.
LoopRun == program = LoopProgram /\ translated /\ calls = 1

\* C32: the run of `new t = 0`, `run t` from the post-reset state never
\* returns: the instructions at the addresses 0 and 2 are executed in turn
\* for ever, JS rises by one with every `run t` up to 255 and stays there.
C32_LoopNeverReturns ==
  /\ [](LoopRun =>
         /\ bytecode = <<0, 0, OpcodeOf("run t")>>
         /\ syntaxErrors = <<>>
         /\ runState = "running"
         /\ registers.programCounter \in {Wide(0), Wide(2)})
  /\ [][LoopRun /\ RunInstruction =>
         /\ registers.programCounter = Wide(0) =>
              /\ registers'.programCounter = Wide(2)
              /\ registers'.jumpStackPointer = registers.jumpStackPointer
         /\ registers.programCounter = Wide(2) =>
              /\ registers'.programCounter = Wide(0)
              /\ registers'.jumpStackPointer =
                   IF registers.jumpStackPointer < UINT8_MAX
                     THEN registers.jumpStackPointer + 1
                     ELSE UINT8_MAX]_vars
  /\ LoopRun ~> [](registers.jumpStackPointer = UINT8_MAX)
  /\ LoopRun ~> (registers.programCounter = Wide(2))
  /\ (LoopRun /\ registers.programCounter = Wide(2))
       ~> (registers.programCounter = Wide(0))

\* The loop goes on with the jump stack full: `run t` has written its
\* return address into the last element once more.
C32_Witness ==
  /\ LoopRun
  /\ runState = "running"
  /\ registers.jumpStackPointer = UINT8_MAX
  /\ registers.programCounter = Wide(2)
  /\ \A i \in 0..UINT8_MAX : ReadAt(jumpStack, i, Wide(0)) = Wide(4)

\* The addresses of the first bytes translateToBytecode emits for the lines
\* from lineIndex on, the first of them at `address`: the bytes emitted as
\* opcodes.
RECURSIVE OpcodeAddressesFrom(_, _, _)
OpcodeAddressesFrom(programLines, lineIndex, address) ==
  IF lineIndex > Len(programLines) THEN {}
  ELSE OpcodeAddressesFrom(programLines, lineIndex + 1,
         address + Len(translateToBytecode(programLines[lineIndex]).bytecode))
       \cup (IF translateToBytecode(programLines[lineIndex]).bytecode = <<>>
               THEN {} ELSE {address})

OpcodeAddresses(text) == OpcodeAddressesFrom(SplitLines(text), 1, 0)

\* The number of immediate bytes the handler of an opcode reads: one for a
\* byte load (getInt8), four for a float load (getFloat32).
ImmediateBytes(opcode) ==
  IF opcode + 1 \notin DOMAIN instructionByBytecode THEN 0
  ELSE IF instructionByBytecode[opcode + 1].op = "loadByte" THEN 1
  ELSE IF instructionByBytecode[opcode + 1].op = "loadFloat" THEN 4
  ELSE 0

\* A first call of runProgram on the new machine is about to fetch: no
\* caller has written the jump stack, no instruction has pushed onto it.
PostResetFetch ==
  /\ RunFreeRun
  /\ LoopCondition(registers, ProgramView)
  /\ jumpStack = EmptyBuffer
  /\ registers.jumpStackPointer = 0

\* C33: in a run of an error-free program without a `run <reg>` line from
\* the post-reset state, every fetch is at the address of a byte emitted as
\* an opcode, the fetched byte has a handler, and the immediate a constant
\* load reads lies inside the bytecode.
C33_FetchesOnlyOpcodes ==
  PostResetFetch =>
    /\ Narrow(registers.programCounter) \in OpcodeAddresses(program)
    /\ FetchedByte + 1 \in DOMAIN instructionByBytecode
    /\ Narrow(registers.programCounter) + 1 + ImmediateBytes(FetchedByte)
         <= byteLength

\* The byte 7 at address 2 is the immediate of `new t = 7`, and the next
\* byte to be fetched.
C33_ImmediateFetched ==
  /\ PostResetFetch
  /\ program = "constructor\nnew t = 7"
  /\ registers.programCounter = Wide(2)
  /\ 2 \notin OpcodeAddresses(program)
  /\ FetchedByte = OpcodeOf("run t")

\* `constructor` alone: the byte load at address 0 has no immediate to read.
C33_ImmediatePastTheEnd ==
  /\ PostResetFetch
  /\ program = "constructor"
  /\ bytecode = <<0>>
  /\ registers.programCounter = Wide(0)

RunOpcodes == {OpcodeOf("run t"), OpcodeOf("run r"), OpcodeOf("run y")}

\* A `run <reg>` below the top of the jump stack stores the address after
\* its own opcode in the element JS and raises JS by one.
RunStepPushes ==
  (FetchedByte \in RunOpcodes /\ registers.jumpStackPointer < UINT8_MAX) =>
    /\ registers'.jumpStackPointer = registers.jumpStackPointer + 1
    /\ jumpStack' = WriteAt(jumpStack, registers.jumpStackPointer,
                       WidePlus(registers.programCounter, 2), Wide(0))

\* An exit inside a call lowers JS by one and continues at the address the
\* last `run <reg>` not yet returned from has stored.
ExitStepPops ==
  (FetchedByte = OpcodeOf("exit") /\ registers.jumpStackPointer > 0) =>
    /\ registers'.jumpStackPointer = registers.jumpStackPointer - 1
    /\ registers'.programCounter =
         ReadAt(jumpStack, registers.jumpStackPointer - 1, Wide(0))
    /\ jumpStack' = jumpStack

\* No other instruction touches JS or the jump stack.
OtherStepsKeepJumpStack ==
  (FetchedByte \notin RunOpcodes \cup {OpcodeOf("exit")}) =>
    /\ registers'.jumpStackPointer = registers.jumpStackPointer
    /\ jumpStack' = jumpStack

\* The first call of runProgram on the new machine with the program that
\* nests `depth` calls, and with the program of two calls with different
\* return addresses.
NestRun(depth) == program = NestProgram(depth) /\ translated /\ calls = 1
ChainRun == program = ChainProgram /\ translated /\ calls = 1

\* The call has just been made: no instruction has run yet.
Started == runState = "running" /\ registers = NewRegisters

\* The run has ended through the exit at JS = 0.
ReturnedAtBottom ==
  /\ runState = "returned"
  /\ registers.jumpStackPointer = 0
  /\ registers.programCounter = UINT32_MAX

\* C34: from JS = 0, n <= 255 nested `run <reg>` calls followed by n exits
\* set PC to the n stored return addresses, last stored first, and bring JS
\* back to 0.
C34_NestedCallsReturnInReverseOrder ==
  /\ [][RunInstruction =>
          RunStepPushes /\ ExitStepPops /\ OtherStepsKeepJumpStack]_vars
  /\ \A depth \in NestDepths :
       /\ [](NestRun(depth) /\ runState # "idle" =>
              /\ runState \in {"running", "returned"}
              /\ registers.jumpStackPointer <= depth
              /\ registers.y.n <= depth)
       /\ (NestRun(depth) /\ Started) ~> (registers.jumpStackPointer = depth)
       /\ (NestRun(depth) /\ registers.jumpStackPointer = depth)
            ~> (ReturnedAtBottom /\ registers.y = Int2Rat(depth))
  /\ [](ChainRun /\ runState = "running" =>
         /\ registers.jumpStackPointer >= 1 => ReadAt(jumpStack, 0, Wide(0)) = Wide(4)
         /\ registers.jumpStackPointer = 2 => ReadAt(jumpStack, 1, Wide(0)) = Wide(10))
  /\ [][ChainRun /\ RunInstruction /\ FetchedByte = OpcodeOf("exit") =>
          \/ registers.jumpStackPointer = 2 /\ registers'.programCounter = Wide(10)
          \/ registers.jumpStackPointer = 1 /\ registers'.programCounter = Wide(4)
          \/ registers.jumpStackPointer = 0 /\ registers'.programCounter = UINT32_MAX]_vars
  /\ (ChainRun /\ Started) ~> (registers.jumpStackPointer = 2)
  /\ (ChainRun /\ registers.jumpStackPointer = 2) ~> ReturnedAtBottom

\* 255 nested calls have returned through 255 exits.
C34_Witness ==
  /\ NestRun(UINT8_MAX)
  /\ ReturnedAtBottom
  /\ registers.y = Int2Rat(UINT8_MAX)
  /\ \A i \in 0..(UINT8_MAX - 1) : ReadAt(jumpStack, i, Wide(0)) = Wide(14)

\* The machine state runProgram works on, and a run that has ended through
\* the exit at JS = 0 on a machine nobody has reset since.
EndedThroughExit ==
  /\ runState = "returned"
  /\ registers.programCounter = UINT32_MAX
  /\ registers.jumpStackPointer = 0

\* C35: runProgram starts fetching at the current PC and resets nothing: a
\* second call after a run that ended through exit at JS = 0, with no reset
\* in between, executes no instruction and leaves the whole state unchanged.
C35_SecondRunDoesNothing ==
  /\ [][RunProgram => UNCHANGED gsxVars]_vars
  /\ [](registers.programCounter = UINT32_MAX =>
         ~LoopCondition(registers, ProgramView))
  /\ [][(EndedThroughExit /\ calls = 1 /\ runState' # runState) =>
          /\ runState' = "running"
          /\ calls' = 2
          /\ UNCHANGED gsxVars]_vars
  /\ [][(runState = "running" /\ calls = 2
          /\ registers.programCounter = UINT32_MAX) =>
          /\ ~RunInstruction
          /\ runState' = "returned"
          /\ UNCHANGED gsxVars]_vars

\* The second call on the machine the first run left has returned.
C35_Witness ==
  /\ calls = 2
  /\ EndedThroughExit
  /\ program = ChainProgram
  /\ ReadAt(jumpStack, 1, Wide(0)) = Wide(10)

----------------------------------------------------------------------------
(* Properties of the debounced function.                                    *)

\* The call i of the debounced function starts a burst: it is the first
\* call, or it arrives Delay or more after the call before it.
BurstStart(i) ==
  i = 1 \/ invocations[i].at - invocations[i - 1].at >= Delay

\* The call i is the last call of its burst.
LastOfBurst(i) == i = Len(invocations) \/ BurstStart(i + 1)

\* The calls i <= j belong to one burst.
SameBurst(i, j) == \A k \in (i + 1)..j : ~BurstStart(k)

\* The executions of callback that belong to the burst ending with call i:
\* those of timers set by a call of that burst.
ExecutionsOfBurst(i) ==
  {j \in DOMAIN executions :
     executions[j].after <= i /\ SameBurst(executions[j].after, i)}

\* callback never runs earlier than Delay after the most recent call of the
\* debounced function.
NeverEarly ==
  \A j \in DOMAIN executions :
    /\ executions[j].after \in DOMAIN invocations
    /\ executions[j].at >= invocations[executions[j].after].at + Delay

\* The burst ending with call i has exactly one execution, with the
\* arguments of call i.
ExecutedOnce(i) ==
  /\ i \in DOMAIN invocations
  /\ \E j \in DOMAIN executions :
       /\ ExecutionsOfBurst(i) = {j}
       /\ executions[j].args = invocations[i].args

\* C36 as stated: callback never runs earlier than Delay after the most
\* recent call, and every burst of calls less than Delay apart leads to
\* exactly one execution, with the arguments of the last call of the burst.
C36_ExactlyOnePerBurst ==
  /\ []NeverEarly
  /\ <>[](\A i \in DOMAIN invocations : LastOfBurst(i) => ExecutedOnce(i))

\* C36, amended: callback never runs earlier than Delay after the most
\* recent call; an execution has the arguments of the last call of its
\* burst and no burst has two executions; a burst is executed when no
\* further call arrives before its timer has fired, and so the last burst
\* always is.
C36_AtMostOnePerBurst ==
  /\ []NeverEarly
  /\ [](\A j \in DOMAIN executions :
         /\ LastOfBurst(executions[j].after)
         /\ executions[j].args = invocations[executions[j].after].args)
  /\ [](\A i \in DOMAIN invocations :
         LastOfBurst(i) => Cardinality(ExecutionsOfBurst(i)) <= 1)
  /\ \A i \in 1..MaxInvocations :
       (Len(invocations) = i)
         ~> (Len(invocations) > i \/ ExecutedOnce(i))
  /\ <>[](invocations # <<>> => ExecutedOnce(Len(invocations)))

\* A burst of two calls has been executed once, with the arguments of the
\* second call, after a late timer; an earlier burst has been as well.
C36_Witness ==
  /\ Len(invocations) = 3
  /\ BurstStart(2) /\ ~BurstStart(3)
  /\ invocations[2].args # invocations[3].args
  /\ Len(executions) = 2
  /\ ExecutedOnce(1) /\ ExecutedOnce(3)
  /\ executions[2].at > invocations[3].at + Delay

\* The timer of the first burst was late, and the call that starts the
\* second burst has cancelled it: the first burst is never executed.
C36_BurstNeverExecuted ==
  /\ Len(invocations) = 2
  /\ BurstStart(2)
  /\ timers = {}
  /\ Len(executions) = 1
  /\ executions[1].after = 2
  /\ ExecutionsOfBurst(1) = {}

=============================================================================
